---- MODULE Spec2Model ----
(***************************************************************************)
(* Model of the sizing driver of the PAV design tool: Iterator.converge    *)
(* (src/iterator.py), the parts initial_aircraft / new_aircraft and the    *)
(* outputs read by src/main.py.  The PAV class is the evaluator: every     *)
(* construction of a PAV whose results are read counts as one evaluator    *)
(* call.  The evaluator is the environment of the driver; it is drawn in   *)
(* Init from a bounded family of deterministic functions of                *)
(* (wing position, assumed mass, assumed c.g.).                            *)
(***************************************************************************)
EXTENDS Integers, Sequences, FiniteSets, TLC

(***************************************************************************)
(* Python floats are IEEE-754 binary64.  A positive normal double is the   *)
(* record [exp, hi, lo] with value (hi * 2^27 + lo) * 2^exp, the 53-bit    *)
(* significand split in two limbs so that every intermediate fits TLC's    *)
(* integers.                                                               *)
(***************************************************************************)
LimbBase == 2^27

HiBase == 2^26

Pow2(n) == 2^n

\* a <= b for positive normal doubles
FLeq(a, b) ==
    \/ a.exp < b.exp
    \/ /\ a.exp = b.exp
       /\ \/ a.hi < b.hi
          \/ a.hi = b.hi /\ a.lo <= b.lo

\* the significand of y moved right by d >= 0 bits: the kept limbs, the
\* guard bit (first bit dropped) and the sticky bit (any lower bit set)
FShift(y, d) ==
    IF d = 0 THEN [hi |-> y.hi, lo |-> y.lo, g |-> 0, st |-> 0]
    ELSE IF d <= 27 THEN
        LET r == y.lo % Pow2(d)
        IN  [hi |-> y.hi \div Pow2(d),
             lo |-> (y.hi % Pow2(d)) * Pow2(27 - d) + (y.lo \div Pow2(d)),
             g  |-> r \div Pow2(d - 1),
             st |-> IF r % Pow2(d - 1) # 0 THEN 1 ELSE 0]
    ELSE IF d <= 54 THEN
        LET k == d - 27
            r == y.hi % Pow2(k)
        IN  [hi |-> 0,
             lo |-> y.hi \div Pow2(k),
             g  |-> r \div Pow2(k - 1),
             st |-> IF r % Pow2(k - 1) # 0 \/ y.lo # 0 THEN 1 ELSE 0]
    ELSE [hi |-> 0, lo |-> 0, g |-> 0, st |-> 1]

\* round to nearest, ties to even, then renormalise
FRound(e, hi, lo, g, st) ==
    IF g = 1 /\ (st = 1 \/ lo % 2 = 1)
    THEN IF lo + 1 < LimbBase THEN [exp |-> e, hi |-> hi, lo |-> lo + 1]
         ELSE IF hi + 1 < HiBase THEN [exp |-> e, hi |-> hi + 1, lo |-> 0]
         ELSE [exp |-> e + 1, hi |-> HiBase \div 2, lo |-> 0]
    ELSE [exp |-> e, hi |-> hi, lo |-> lo]

\* a + b in binary64 (the += of position, iterator.py line 136)
FAdd(a, b) ==
    LET x   == IF a.exp >= b.exp THEN a ELSE b
        y   == IF a.exp >= b.exp THEN b ELSE a
        s   == FShift(y, x.exp - y.exp)
        lo0 == x.lo + s.lo
        lo1 == lo0 % LimbBase
        hi1 == x.hi + s.hi + (lo0 \div LimbBase)
    IN  IF hi1 < HiBase
        THEN FRound(x.exp, hi1, lo1, s.g, s.st)
        ELSE FRound(x.exp + 1, hi1 \div 2,
                    (hi1 % 2) * HiBase + (lo1 \div 2),
                    lo1 % 2,
                    IF s.g = 1 \/ s.st = 1 THEN 1 ELSE 0)

\* 0.2  = 0x3FC999999999999A
position_start == [exp |-> -55, hi |-> 53687091, lo |-> 26843546]

\* 0.5  = 0x3FE0000000000000
position_end == [exp |-> -53, hi |-> 33554432, lo |-> 0]

\* 0.025 = 0x3F9999999999999A
position_step == [exp |-> -58, hi |-> 53687091, lo |-> 26843546]

\* 0.4  = 0x3FD999999999999A, the default of PAV.longitudinal_wing_position
default_wing_position == [exp |-> -54, hi |-> 53687091, lo |-> 26843546]

\* the positions an inner scan visits, in order (lines 89, 101, 136)
RECURSIVE ScanFrom(_)
ScanFrom(p) ==
    IF FLeq(p, position_end)
    THEN <<p>> \o ScanFrom(FAdd(p, position_step))
    ELSE <<>>

Grid == ScanFrom(position_start)

\* 0.0125, half a grid step
half_step == [exp |-> -59, hi |-> 53687091, lo |-> 26843546]

\* no position assigned yet (an unbound Python name)
NoPosition == [exp |-> 0, hi |-> 0, lo |-> 0]

(***************************************************************************)
(* The evaluator.  PAV(...) is a deterministic function of the wing        *)
(* position, the assumed mass and the assumed c.g. (the mission inputs are *)
(* fixed during a run).  Its formulas and the AVL analysis behind them are *)
(* not reproduced: the driver only reads four results, and the evaluator   *)
(* is drawn from the family below.  Masses are in Newton, areas and c.g.   *)
(* in abstract integer units.                                              *)
(***************************************************************************)
MaxLevel == 2

Levels == 0..MaxLevel

\* the mass levels: 20000 N and 400, 1200, 2400, ... N above it
LevelMass(l) == 20000 + 400 * ((l * (l + 1)) \div 2)

\* the level whose mass is the greatest one not above m
LevelOf(m) ==
    IF m < LevelMass(0) THEN 0
    ELSE CHOOSE l \in Levels :
            /\ LevelMass(l) <= m
            /\ \A j \in Levels : LevelMass(j) <= m => j <= l

\* the grid index nearest to a position (0.4 lies next to the ninth sample)
Midpoints == [i \in 1..Len(Grid) |-> FAdd(Grid[i], half_step)]

PosKey(pos) == Cardinality({i \in 1..Len(Grid) : FLeq(Midpoints[i], pos)})

Abs(x) == IF x < 0 THEN -x ELSE x

\* the tail-area functions: the horizontal tail area is a parabola over the
\* grid index with its minimum at amin (12 is the position 0.5), divided by
\* flat; the vertical tail area grows by vslope per grid index; with adrift
\* the minimum moves with the assumed mass and c.g.
AreaFamilies ==
    { [flat |-> 1,   vslope |-> 0, amin |-> 0,  adrift |-> 0],
      [flat |-> 1,   vslope |-> 0, amin |-> 6,  adrift |-> 0],
      [flat |-> 1,   vslope |-> 0, amin |-> 12, adrift |-> 0],
      [flat |-> 1,   vslope |-> 0, amin |-> 8,  adrift |-> 0],
      [flat |-> 1,   vslope |-> 0, amin |-> 11, adrift |-> 0],
      [flat |-> 1,   vslope |-> 0, amin |-> 3,  adrift |-> 1],
      [flat |-> 1,   vslope |-> 2, amin |-> 6,  adrift |-> 0],
      [flat |-> 1,   vslope |-> 2, amin |-> 11, adrift |-> 1],
      [flat |-> 4,   vslope |-> 0, amin |-> 6,  adrift |-> 0],
      [flat |-> 4,   vslope |-> 0, amin |-> 9,  adrift |-> 1],
      [flat |-> 144, vslope |-> 0, amin |-> 6,  adrift |-> 0] }

\* distances of the fixed-point mass from the first assumed mass
HalvingDistances == {640, 6400, 8000, 16000, -6400, -16000}

\* an evaluator that never raises
NoFail == [key |-> -1, level |-> -1]

\* the evaluations that raise: those at the seventh grid position (0.35)
\* with an assumed mass of the given level; the initial aircraft, at 0.4,
\* is always evaluated
Fails == [key : {6}, level : Levels]

\* kind "map": the resulting mass is a mass level chosen by the level of
\* the assumed mass, plus mslope per grid index; kind "halving": the
\* resulting mass halves the distance of the assumed mass to a fixed point;
\* fail: the evaluation that ends with an exception, if any
Evaluators ==
    [kind : {"map"}, start : Levels, mslope : {0}, dist : {0},
     area : AreaFamilies, fail : {NoFail}]
    \cup
    [kind : {"map"}, start : Levels, mslope : {10}, dist : {0},
     area : {f \in AreaFamilies : f.amin = 6 /\ f.flat = 1},
     fail : {NoFail}]
    \cup
    [kind : {"halving"}, start : {0}, mslope : {0}, dist : HalvingDistances,
     area : {f \in AreaFamilies : f.amin = 6 /\ f.vslope = 0},
     fail : {NoFail}]
    \cup
    [kind : {"map"}, start : Levels, mslope : {0}, dist : {0},
     area : {f \in AreaFamilies : f.amin = 6 /\ f.vslope = 0 /\ f.flat = 1},
     fail : Fails]

\* the evaluation of a PAV at this position and assumed mass raises
Raises(ev, pos, m) ==
    ev.fail.key = PosKey(pos) /\ ev.fail.level = LevelOf(m)

\* PAV.horizontal_tail_area
HorizontalTailArea(ev, pos, m, c) ==
    LET k    == PosKey(pos)
        kmin == (ev.area.amin + ev.area.adrift * (LevelOf(m) + c))
                    % (Len(Grid) + 1)
    IN  10 + ((k - kmin) * (k - kmin)) \div ev.area.flat

\* PAV.vertical_tail_area
VerticalTailArea(ev, pos, m, c) == 5 + ev.area.vslope * PosKey(pos)

\* PAV.expected_maximum_take_off_weight; memo is the part of the mass map
\* of the evaluator fixed so far
ExpectedMass(ev, memo, pos, m, c) ==
    IF ev.kind = "halving"
    THEN m + ((LevelMass(0) + ev.dist) - m) \div 2
    ELSE LevelMass(memo[LevelOf(m)]) + ev.mslope * PosKey(pos)

\* PAV.centre_of_gravity_result, in percent of the fuselage length
CgResult(ev, pos, m, c) == 30 + PosKey(pos)

\* the default of PAV.centre_of_gravity, in percent of the fuselage length
DefaultCg == 35

\* the default of PAV.maximum_take_off_weight (a closed-form guess)
DefaultMass(ev) == LevelMass(ev.start)

NoAircraft ==
    [built |-> FALSE, label |-> "none",
     longitudinal_wing_position |-> NoPosition,
     maximum_take_off_weight |-> -1, centre_of_gravity |-> -1,
     horizontal_tail_area |-> -1, vertical_tail_area |-> -1,
     expected_maximum_take_off_weight |-> -1,
     centre_of_gravity_result |-> -1, hide_warnings |-> FALSE]

\* one evaluator call: a PAV built with the given inputs and evaluated
PAV(ev, memo, lbl, pos, m, c, hide) ==
    [built |-> TRUE, label |-> lbl,
     longitudinal_wing_position |-> pos,
     maximum_take_off_weight |-> m, centre_of_gravity |-> c,
     horizontal_tail_area |-> HorizontalTailArea(ev, pos, m, c),
     vertical_tail_area |-> VerticalTailArea(ev, pos, m, c),
     expected_maximum_take_off_weight |-> ExpectedMass(ev, memo, pos, m, c),
     centre_of_gravity_result |-> CgResult(ev, pos, m, c),
     hide_warnings |-> hide]

\* an evaluator call that ended with an exception: no attribute was read
RaisedPAV(lbl, pos, m, c, hide) ==
    [NoAircraft EXCEPT !.label = lbl,
                       !.longitudinal_wing_position = pos,
                       !.maximum_take_off_weight = m,
                       !.centre_of_gravity = c,
                       !.hide_warnings = hide]

(***************************************************************************)
(* The driver: class Iterator and the reads of src/main.py.                *)
(***************************************************************************)
VARIABLES
    iterate,                    \* Input iterate
    allowable_mass_difference,  \* Input allowable_mass_difference
    evaluator,                  \* the evaluator of this run
    mass_map,                   \* its mass map, as far as it has been used
    pc,                         \* where the run is
    initial_aircraft,           \* Part initial_aircraft
    new_aircraft,               \* Part new_aircraft
    converge,                   \* the cached value of Attribute converge
    original_mass, original_cg, \* locals of converge
    resulting_mass, resulting_position, resulting_cg,
    outer_loop, position,
    position_list, area_list, mass_list, cg_list,
    outputs,                    \* what main.py has read so far
    calls,                      \* evaluator calls issued so far
    mission,                    \* the mission Inputs of the Iterator
    call_log,                   \* the evaluator calls issued so far, in order
    first_run,                  \* what an earlier run with these inputs gave
    pav_in,                     \* the Inputs and input attributes of one PAV
    pav_out,                    \* its Attributes evaluated (and cached) so far
    pav_warnings,               \* the warning dialogs it has shown
    pav_pc                      \* whether its evaluation is going on

vars == <<iterate, allowable_mass_difference, evaluator, mass_map, pc,
          initial_aircraft, new_aircraft, converge,
          original_mass, original_cg,
          resulting_mass, resulting_position, resulting_cg,
          outer_loop, position,
          position_list, area_list, mass_list, cg_list, outputs, calls,
          mission, call_log, first_run,
          pav_in, pav_out, pav_warnings, pav_pc>>

parts == <<initial_aircraft, new_aircraft>>

locals == <<original_mass, original_cg,
            resulting_mass, resulting_position, resulting_cg,
            outer_loop, position,
            position_list, area_list, mass_list, cg_list>>

inputs == <<iterate, allowable_mass_difference, evaluator, mission>>

\* the state of the PAV whose attributes are evaluated one by one
pav == <<pav_in, pav_out, pav_warnings, pav_pc>>

\* what the actions of one run of the driver leave alone
rest == <<first_run, pav>>

\* iterate is a free Input: the booleans and a truthy non-boolean
IterateValues == {"True", "False", "1"}

\* Python's "x is True"
IsTrue(v) == v = "True"

\* Python's "not x"
Not(v) == v = "False"

Tolerances == {-1, 0, 400, 500}

\* the attributes main.py reads, in its order (lines 84, 95, 98, 99)
OutputOrder == <<"step_part", "battery_energy", "wing_span", "fuselage_length">>

\* the defaults of the mission Inputs of Iterator (lines 32-39) and the
\* values of a client input file
Missions ==
    { [n_passengers |-> 4, range_in_km |-> 200, max_span |-> 18,
       quality_choice |-> 2, wheels_choice |-> TRUE, cruise_speed |-> 300,
       primary_colour |-> "white", secondary_colour |-> "blue"],
      [n_passengers |-> 6, range_in_km |-> 800, max_span |-> 12,
       quality_choice |-> 1, wheels_choice |-> FALSE, cruise_speed |-> 500,
       primary_colour |-> "red", secondary_colour |-> "pink"] }

\* the evaluator answers for the mission of the run: in the family, the
\* mass depends on the wing position (mslope) for the client's mission
MissionsOf(ev) ==
    {m \in Missions : (m.n_passengers = 4) <=> (ev.mslope = 0)}

\* one evaluator call as the driver issues it: the outer iteration it
\* belongs to, the PAV, the mission inputs passed, and whether it raised
Call(k, aircraft, mi, raised) ==
    [iteration |-> k, aircraft |-> aircraft, mission |-> mi,
     raised |-> raised]

NoRun == [ran |-> FALSE, converge |-> << >>, call_log |-> << >>,
          outputs |-> << >>, pc |-> "none"]

NoConverge == [computed |-> FALSE, position |-> NoPosition, mass |-> -1, cg |-> -1]

\* no PAV is looked at on its own while the driver runs
PavIdle ==
    /\ pav_in = << >> /\ pav_out = << >>
    /\ pav_warnings = << >> /\ pav_pc = "idle"

\* the driver before main.py reads anything
DriverStart ==
    /\ mass_map = [l \in Levels |-> -1]
    /\ pc = "main"
    /\ initial_aircraft = NoAircraft
    /\ new_aircraft = NoAircraft
    /\ converge = NoConverge
    /\ original_mass = -1 /\ original_cg = -1
    /\ resulting_mass = -1 /\ resulting_position = NoPosition
    /\ resulting_cg = -1
    /\ outer_loop = -1 /\ position = NoPosition
    /\ position_list = <<>> /\ area_list = <<>>
    /\ mass_list = <<>> /\ cg_list = <<>>
    /\ outputs = <<>>
    /\ calls = 0
    /\ call_log = <<>>
    /\ first_run = NoRun

Init ==
    /\ iterate \in IterateValues
    /\ allowable_mass_difference \in Tolerances
    /\ evaluator \in Evaluators
    /\ mission \in MissionsOf(evaluator)
    /\ DriverStart
    /\ PavIdle

\* the mass maps an evaluator call with assumed mass m may turn out to have
Resolve(m) ==
    IF evaluator.kind = "map" /\ mass_map[LevelOf(m)] = -1
    THEN {[mass_map EXCEPT ![LevelOf(m)] = l] : l \in Levels}
    ELSE {mass_map}

\* the next attribute main.py reads
NextOutput == OutputOrder[Len(outputs) + 1]

\* the defaults of the mission Inputs of PAV (pav.py, lines 182-196), under
\* the names of the Iterator Inputs passed to them
PAVDefaults ==
    [n_passengers |-> 4, range_in_km |-> 500, max_span |-> 12,
     quality_choice |-> 1, wheels_choice |-> TRUE, cruise_speed |-> 400,
     primary_colour |-> "white", secondary_colour |-> "red"]

\* mutant: the initial aircraft is built without the mission of the run
InitialAircraftDefaults ==
    /\ pc \in {"main", "converge"}
    /\ ~initial_aircraft.built
    /\ Len(outputs) < Len(OutputOrder)
    /\ ~Raises(evaluator, default_wing_position, DefaultMass(evaluator))
    /\ \E mm \in Resolve(DefaultMass(evaluator)) :
          /\ mass_map' = mm
          /\ initial_aircraft' =
                PAV(evaluator, mm, "Quick_PAV", default_wing_position,
                    DefaultMass(evaluator), DefaultCg, FALSE)
    /\ call_log' = Append(call_log,
                          Call(0, initial_aircraft', PAVDefaults, FALSE))
    /\ calls' = calls + 1
    /\ UNCHANGED <<inputs, rest, pc, new_aircraft, converge, locals, outputs>>

\* Part initial_aircraft, built on first use with the PAV defaults
InitialAircraft ==
    /\ pc \in {"main", "converge"}
    /\ ~initial_aircraft.built
    /\ Len(outputs) < Len(OutputOrder)
    /\ ~Raises(evaluator, default_wing_position, DefaultMass(evaluator))
    /\ \E mm \in Resolve(DefaultMass(evaluator)) :
          /\ mass_map' = mm
          /\ initial_aircraft' =
                PAV(evaluator, mm, "Quick_PAV", default_wing_position,
                    DefaultMass(evaluator), DefaultCg, FALSE)
    /\ call_log' = Append(call_log, Call(0, initial_aircraft', mission, FALSE))
    /\ calls' = calls + 1
    /\ UNCHANGED <<inputs, rest, pc, new_aircraft, converge, locals, outputs>>

\* mutant: converge is evaluated whatever iterate is
ConvergeCallAlways ==
    /\ pc = "main"
    /\ Len(outputs) < Len(OutputOrder)
    /\ ~new_aircraft.built
    /\ ~converge.computed
    /\ pc' = "converge"
    /\ UNCHANGED <<inputs, rest, mass_map, parts, converge, locals, outputs, calls, call_log>>

\* new_aircraft asks for self.converge, which is evaluated once
ConvergeCall ==
    /\ pc = "main"
    /\ Len(outputs) < Len(OutputOrder)
    /\ IsTrue(iterate)
    /\ ~new_aircraft.built
    /\ ~converge.computed
    /\ pc' = "converge"
    /\ UNCHANGED <<inputs, rest, mass_map, parts, converge, locals, outputs, calls, call_log>>

\* mutant: the iteration counter is not reset when converge starts
ConvergeStartKeepsCount ==
    /\ pc = "converge"
    /\ initial_aircraft.built
    /\ original_mass' = initial_aircraft.maximum_take_off_weight
    /\ resulting_mass' = initial_aircraft.expected_maximum_take_off_weight
    /\ resulting_position' = initial_aircraft.longitudinal_wing_position
    /\ resulting_cg' = initial_aircraft.centre_of_gravity_result
    /\ outer_loop' = IF outer_loop < 0 THEN 0 ELSE outer_loop
    /\ pc' = "while_outer"
    /\ UNCHANGED <<inputs, rest, mass_map, parts, converge, original_cg,
                   position, position_list, area_list, mass_list, cg_list,
                   outputs, calls, call_log>>

\* converge, lines 53-67
ConvergeStart ==
    /\ pc = "converge"
    /\ initial_aircraft.built
    /\ original_mass' = initial_aircraft.maximum_take_off_weight
    /\ resulting_mass' = initial_aircraft.expected_maximum_take_off_weight
    /\ resulting_position' = initial_aircraft.longitudinal_wing_position
    /\ resulting_cg' = initial_aircraft.centre_of_gravity_result
    /\ outer_loop' = 0
    /\ pc' = "while_outer"
    /\ UNCHANGED <<inputs, rest, mass_map, parts, converge, original_cg, position,
                   position_list, area_list, mass_list, cg_list, outputs,
                   calls, call_log>>

\* the cap on the number of outer iterations, line 72
OuterCap == 3

\* mutant: the cap is tested with <= instead of <
OuterConditionOffByOne ==
    /\ Abs(original_mass - resulting_mass) > allowable_mass_difference
    /\ outer_loop <= OuterCap

\* mutant: a gap equal to the tolerance keeps the loop running
OuterConditionNotStrict ==
    /\ Abs(original_mass - resulting_mass) >= allowable_mass_difference
    /\ outer_loop < OuterCap

\* mutant: the loop stops one iteration early
OuterConditionShort ==
    /\ Abs(original_mass - resulting_mass) > allowable_mass_difference
    /\ outer_loop < OuterCap - 1

\* the condition of the outer while, lines 71-72
OuterCondition ==
    /\ Abs(original_mass - resulting_mass) > allowable_mass_difference
    /\ outer_loop < OuterCap

\* mutant: the assumed c.g. is not taken over from the last winner
OuterLoopKeepsCg ==
    /\ pc = "while_outer"
    /\ OuterCondition
    /\ outer_loop' = outer_loop + 1
    /\ original_mass' = resulting_mass
    /\ original_cg' = original_cg
    /\ position' = position_start
    /\ position_list' = <<>> /\ area_list' = <<>>
    /\ mass_list' = <<>> /\ cg_list' = <<>>
    /\ pc' = "while_inner"
    /\ UNCHANGED <<inputs, rest, mass_map, parts, converge, resulting_mass,
                   resulting_position, resulting_cg, outputs, calls, call_log>>

\* the outer while is entered: lines 71-97
OuterLoop ==
    /\ pc = "while_outer"
    /\ OuterCondition
    /\ outer_loop' = outer_loop + 1
    /\ original_mass' = resulting_mass
    /\ original_cg' = resulting_cg
    /\ position' = position_start
    /\ position_list' = <<>> /\ area_list' = <<>>
    /\ mass_list' = <<>> /\ cg_list' = <<>>
    /\ pc' = "while_inner"
    /\ UNCHANGED <<inputs, rest, mass_map, parts, converge, resulting_mass,
                   resulting_position, resulting_cg, outputs, calls, call_log>>

\* mutant: the end of the scan is tested with half a step of slack
InnerConditionSlack == FLeq(position, FAdd(position_end, half_step))

\* mutant: the scan runs one step beyond position_end
InnerConditionLate == FLeq(position, FAdd(position_end, position_step))

\* the condition of the inner while, line 101
InnerCondition == FLeq(position, position_end)

\* mutant: only the horizontal tail area is recorded
InnerLoopHorizontalOnly ==
    /\ pc = "while_inner"
    /\ InnerCondition
    /\ ~Raises(evaluator, position, original_mass)
    /\ \E mm \in Resolve(original_mass) :
          LET intermediate == PAV(evaluator, mm, "initial", position,
                                  original_mass, original_cg, TRUE)
          IN  /\ mass_map' = mm
              /\ call_log' = Append(call_log, Call(outer_loop, intermediate,
                                                   mission, FALSE))
              /\ position_list' = Append(position_list, position)
              /\ area_list' = Append(area_list,
                                     intermediate.horizontal_tail_area)
              /\ mass_list' =
                    Append(mass_list,
                           intermediate.expected_maximum_take_off_weight)
              /\ cg_list' = Append(cg_list,
                                   intermediate.centre_of_gravity_result)
    /\ position' = FAdd(position, position_step)
    /\ calls' = calls + 1
    /\ UNCHANGED <<inputs, rest, parts, converge, pc, original_mass, original_cg,
                   resulting_mass, resulting_position, resulting_cg,
                   outer_loop, outputs>>

\* mutant: the PAV of a sample is evaluated a second time
InnerLoopEvaluatesTwice ==
    /\ pc = "while_inner"
    /\ InnerCondition
    /\ ~Raises(evaluator, position, original_mass)
    /\ \E mm \in Resolve(original_mass) :
          LET intermediate == PAV(evaluator, mm, "initial", position,
                                  original_mass, original_cg, TRUE)
              h_t_area == intermediate.horizontal_tail_area
              v_t_area == intermediate.vertical_tail_area
              mass == intermediate.expected_maximum_take_off_weight
              cg == intermediate.centre_of_gravity_result
              made == Call(outer_loop, intermediate, mission, FALSE)
          IN  /\ mass_map' = mm
              /\ call_log' = Append(Append(call_log, made), made)
              /\ position_list' = Append(position_list, position)
              /\ area_list' = Append(area_list, h_t_area + v_t_area)
              /\ mass_list' = Append(mass_list, mass)
              /\ cg_list' = Append(cg_list, cg)
    /\ position' = FAdd(position, position_step)
    /\ calls' = calls + 2
    /\ UNCHANGED <<inputs, rest, parts, converge, pc, original_mass,
                   original_cg, resulting_mass, resulting_position,
                   resulting_cg, outer_loop, outputs>>

\* one pass of the inner while: lines 101-136
InnerLoop ==
    /\ pc = "while_inner"
    /\ InnerCondition
    /\ ~Raises(evaluator, position, original_mass)
    /\ \E mm \in Resolve(original_mass) :
          LET intermediate == PAV(evaluator, mm, "initial", position,
                                  original_mass, original_cg, TRUE)
              h_t_area == intermediate.horizontal_tail_area
              v_t_area == intermediate.vertical_tail_area
              mass == intermediate.expected_maximum_take_off_weight
              cg == intermediate.centre_of_gravity_result
          IN  /\ mass_map' = mm
              /\ call_log' = Append(call_log, Call(outer_loop, intermediate,
                                                   mission, FALSE))
              /\ position_list' = Append(position_list, position)
              /\ area_list' = Append(area_list, h_t_area + v_t_area)
              /\ mass_list' = Append(mass_list, mass)
              /\ cg_list' = Append(cg_list, cg)
    /\ position' = FAdd(position, position_step)
    /\ calls' = calls + 1
    /\ UNCHANGED <<inputs, rest, parts, converge, pc, original_mass, original_cg,
                   resulting_mass, resulting_position, resulting_cg,
                   outer_loop, outputs>>

\* mutant: a sample whose evaluation raises is skipped and the scan goes on
InnerLoopSkips ==
    /\ pc = "while_inner"
    /\ InnerCondition
    /\ Raises(evaluator, position, original_mass)
    /\ call_log' = Append(call_log,
                          Call(outer_loop,
                               RaisedPAV("initial", position, original_mass,
                                         original_cg, TRUE),
                               mission, TRUE))
    /\ calls' = calls + 1
    /\ position' = FAdd(position, position_step)
    /\ UNCHANGED <<inputs, rest, mass_map, parts, converge, pc, original_mass,
                   original_cg, resulting_mass, resulting_position,
                   resulting_cg, outer_loop, position_list, area_list,
                   mass_list, cg_list, outputs>>

\* a pass of the inner while in which the evaluation raises: nothing is
\* caught (lines 101-136 have no try), the exception leaves converge, the
\* attribute being read and main.py
InnerLoopRaises ==
    /\ pc = "while_inner"
    /\ InnerCondition
    /\ Raises(evaluator, position, original_mass)
    /\ call_log' = Append(call_log,
                          Call(outer_loop,
                               RaisedPAV("initial", position, original_mass,
                                         original_cg, TRUE),
                               mission, TRUE))
    /\ calls' = calls + 1
    /\ pc' = "error"
    /\ UNCHANGED <<inputs, rest, mass_map, parts, converge, locals, outputs>>

\* mutant: max instead of min
Max(list) ==
    CHOOSE a \in {list[i] : i \in 1..Len(list)} :
        \A i \in 1..Len(list) : a >= list[i]

\* Python's min(list)
Min(list) ==
    CHOOSE a \in {list[i] : i \in 1..Len(list)} :
        \A i \in 1..Len(list) : a <= list[i]

\* mutant: the last place of a instead of the first
IndexLast(list, a) ==
    CHOOSE i \in 1..Len(list) :
        /\ list[i] = a
        /\ \A j \in (i + 1)..Len(list) : list[j] # a

\* Python's list.index(a): the first place of a, counted from 1 here
Index(list, a) ==
    CHOOSE i \in 1..Len(list) :
        /\ list[i] = a
        /\ \A j \in 1..(i - 1) : list[j] # a

\* mutant: the mass is taken from the last sample, not from the winner
SelectLastMass ==
    /\ pc = "while_inner"
    /\ ~InnerCondition
    /\ LET area == Min(area_list)
           index == Index(area_list, area)
       IN  /\ resulting_position' = position_list[index]
           /\ resulting_mass' = mass_list[Len(mass_list)]
           /\ resulting_cg' = cg_list[index]
    /\ pc' = "while_outer"
    /\ UNCHANGED <<inputs, rest, mass_map, parts, converge, original_mass,
                   original_cg, outer_loop, position,
                   position_list, area_list, mass_list, cg_list, outputs,
                   calls, call_log>>

\* the inner while is left: lines 141-151
Select ==
    /\ pc = "while_inner"
    /\ ~InnerCondition
    /\ LET area == Min(area_list)
           index == Index(area_list, area)
       IN  /\ resulting_position' = position_list[index]
           /\ resulting_mass' = mass_list[index]
           /\ resulting_cg' = cg_list[index]
    /\ pc' = "while_outer"
    /\ UNCHANGED <<inputs, rest, mass_map, parts, converge, original_mass,
                   original_cg, outer_loop, position,
                   position_list, area_list, mass_list, cg_list, outputs,
                   calls, call_log>>

\* mutant: leaving the loop with the gap above the tolerance is an error
ReturnRaisesUnconverged ==
    /\ pc = "while_outer"
    /\ ~OuterCondition
    /\ IF Abs(original_mass - resulting_mass) > allowable_mass_difference
       THEN pc' = "error" /\ converge' = converge
       ELSE /\ converge' = [computed |-> TRUE,
                            position |-> resulting_position,
                            mass |-> resulting_mass, cg |-> resulting_cg]
            /\ pc' = "main"
    /\ UNCHANGED <<inputs, rest, mass_map, parts, locals, outputs, calls,
                   call_log>>

\* the outer while is left: line 157
Return ==
    /\ pc = "while_outer"
    /\ ~OuterCondition
    /\ converge' = [computed |-> TRUE, position |-> resulting_position,
                    mass |-> resulting_mass, cg |-> resulting_cg]
    /\ pc' = "main"
    /\ UNCHANGED <<inputs, rest, mass_map, parts, locals, outputs, calls, call_log>>

\* mutant: the final aircraft is given the mass assumed in the last scan
NewAircraftStaleMass ==
    /\ pc = "main"
    /\ Len(outputs) < Len(OutputOrder)
    /\ IsTrue(iterate)
    /\ ~Not(iterate)
    /\ converge.computed
    /\ ~new_aircraft.built
    /\ ~Raises(evaluator, converge.position, original_mass)
    /\ \E mm \in Resolve(original_mass) :
          /\ mass_map' = mm
          /\ new_aircraft' =
                PAV(evaluator, mm, "Iterated_PAV", converge.position,
                    original_mass, converge.cg, FALSE)
    /\ call_log' = Append(call_log, Call(outer_loop + 1, new_aircraft',
                                         mission, FALSE))
    /\ calls' = calls + 1
    /\ UNCHANGED <<inputs, rest, pc, initial_aircraft, converge, locals, outputs>>

\* Part new_aircraft, built from the cached value of converge
NewAircraft ==
    /\ pc = "main"
    /\ Len(outputs) < Len(OutputOrder)
    /\ IsTrue(iterate)
    /\ ~Not(iterate)
    /\ converge.computed
    /\ ~new_aircraft.built
    /\ ~Raises(evaluator, converge.position, converge.mass)
    /\ \E mm \in Resolve(converge.mass) :
          /\ mass_map' = mm
          /\ new_aircraft' =
                PAV(evaluator, mm, "Iterated_PAV", converge.position,
                    converge.mass, converge.cg, FALSE)
    /\ call_log' = Append(call_log, Call(outer_loop + 1, new_aircraft',
                                         mission, FALSE))
    /\ calls' = calls + 1
    /\ UNCHANGED <<inputs, rest, pc, initial_aircraft, converge, locals, outputs>>

\* Part new_aircraft when its evaluation raises
NewAircraftRaises ==
    /\ pc = "main"
    /\ Len(outputs) < Len(OutputOrder)
    /\ IsTrue(iterate)
    /\ ~Not(iterate)
    /\ converge.computed
    /\ ~new_aircraft.built
    /\ Raises(evaluator, converge.position, converge.mass)
    /\ call_log' = Append(call_log,
                          Call(outer_loop + 1,
                               RaisedPAV("Iterated_PAV", converge.position,
                                         converge.mass, converge.cg, FALSE),
                               mission, TRUE))
    /\ calls' = calls + 1
    /\ pc' = "error"
    /\ UNCHANGED <<inputs, rest, mass_map, parts, converge, locals, outputs>>

\* step_part, wing_span, fuselage_length, battery_energy: lines 164-184
ReadOutput ==
    /\ pc = "main"
    /\ Len(outputs) < Len(OutputOrder)
    /\ LET source == IF IsTrue(iterate) THEN new_aircraft
                     ELSE initial_aircraft
       IN  /\ source.built
           /\ outputs' = Append(outputs,
                                [name |-> NextOutput, aircraft |-> source])
    /\ pc' = IF Len(outputs) + 1 = Len(OutputOrder) THEN "done" ELSE "main"
    /\ UNCHANGED <<inputs, rest, mass_map, parts, converge, locals, calls, call_log>>

Next ==
    \/ InitialAircraft
    \/ ConvergeCall
    \/ ConvergeStart
    \/ OuterLoop
    \/ InnerLoop
    \/ Select
    \/ Return
    \/ NewAircraft
    \/ ReadOutput
    \/ InnerLoopRaises
    \/ NewAircraftRaises

Spec == Init /\ [][Next]_vars

\* the program is run a second time with the same inputs and the same
\* evaluator: a new Iterator is built (main.py, lines 54-64), so its Parts
\* and cached Attributes are empty again; what the first run gave is kept
\* for comparison; the locals of converge are not part of a new call and
\* are left with whatever they held
Rerun ==
    /\ pc \in {"done", "error"}
    /\ ~first_run.ran
    /\ first_run' = [ran |-> TRUE, converge |-> converge,
                     call_log |-> call_log, outputs |-> outputs, pc |-> pc]
    /\ pc' = "main"
    /\ initial_aircraft' = NoAircraft
    /\ new_aircraft' = NoAircraft
    /\ converge' = NoConverge
    /\ outputs' = <<>>
    /\ calls' = 0
    /\ call_log' = <<>>
    /\ UNCHANGED <<inputs, mass_map, locals, pav>>

\* the runs that are repeated: iterate enabled, the default tolerance or
\* none at all, and an area function that moves with the assumed mass or
\* an evaluator that halves the gap or raises
InitTwice ==
    /\ Init
    /\ iterate = "True"
    /\ allowable_mass_difference \in {0, 500}
    /\ \/ evaluator.area.adrift = 1
       \/ evaluator.kind = "halving"
       \/ evaluator.fail # NoFail

NextTwice == Next \/ Rerun

SpecTwice == InitTwice /\ [][NextTwice]_vars

(***************************************************************************)
(* Attributes of class PAV (src/pav_classes/pav.py), evaluated on one PAV. *)
(* Lengths are in cm, forces in N, speeds in 1/36 m/s (so that x km/h is   *)
(* 10 x); quotients are kept as exact fractions.                           *)
(***************************************************************************)

\* the fraction n / d, d > 0
Rat(n, d) == [num |-> n, den |-> d]

RLess(x, y) == x.num * y.den < y.num * x.den

REq(x, y) == x.num * y.den = y.num * x.den

RMin(x, y) == IF RLess(y, x) THEN y ELSE x

\* math.ceil of n / d, d > 0
Ceil(n, d) == -((-n) \div d)

\* int() of n / d, d > 0: towards zero
Trunc(n, d) == IF n >= 0 THEN n \div d ELSE -((-n) \div d)

\* an Attribute not evaluated yet
NoValue == Rat(0, 0)

NoOutputs ==
    [velocity |-> NoValue, cruise_mach_number |-> NoValue,
     number_of_propellers |-> NoValue, propeller_locations |-> -1]

\* cruise_velocity in km/h, zero and negative values included
CruiseVelocities == {-100, 0, 300, 709, 710, 735, 736, 1000}

\* cruise_speed_of_sound at 10,000 ft and at sea level
SpeedsOfSound == {11820, 12250}

\* total_drag_coefficient * velocity ** 2 * wing_area * cruise_density / 2
CruiseDrags == {300, 1500, 4000, 9000}

\* thrust_per_propeller: nose propeller, wing propeller
Thrusts == {<<328, 697>>, <<900, 300>>, <<150, 96>>}

\* wing_span and cabin_width
Planforms == {<<260, 120>>, <<700, 120>>, <<700, 70>>, <<1200, 160>>,
              <<1800, 160>>}

PAVInputs ==
    [cruise_velocity : CruiseVelocities,
     cruise_speed_of_sound : SpeedsOfSound,
     hide_warnings : BOOLEAN,
     cruise_drag : CruiseDrags,
     thrust_per_propeller : Thrusts,
     planform : Planforms]

\* mutant: the cruise velocity is not limited
velocityUnlimited(self) ==
    [value |-> Rat(self.cruise_velocity * 10, 1), message |-> FALSE]

\* PAV.velocity, lines 263-278: the value returned and whether the message
\* applies
velocity(self) ==
    LET v == Rat(self.cruise_velocity * 10, 1)
        mach == Rat(v.num, v.den * self.cruise_speed_of_sound)
    IN  IF RLess(Rat(6, 10), mach)
        THEN [value |-> Rat(6 * self.cruise_speed_of_sound, 10),
              message |-> TRUE]
        ELSE [value |-> v, message |-> FALSE]

\* PAV.cruise_mach_number, lines 376-378, from the cached velocity
cruise_mach_number(self, v) == Rat(v.num, v.den * self.cruise_speed_of_sound)

\* PAV.propeller_radii, lines 1749-1756: the radius of a wing propeller
propeller_radii(self) == RMin(Rat(self.planform[1], 10), Rat(70, 1))

\* PAV.prop_separation_factor, lines 1383-1386
prop_separation_factor == Rat(12, 10)

\* PAV.number_of_propellers, lines 1720-1747: the value returned and whether
\* the message applies
number_of_propellers(self) ==
    LET required == 2 * Ceil(self.cruise_drag - self.thrust_per_propeller[1],
                             2 * self.thrust_per_propeller[2])
        r == propeller_radii(self)
        f == prop_separation_factor
        allowed ==
            Rat(((self.planform[1] - self.planform[2]) * r.den - r.num)
                    * f.den,
                2 * r.num * f.num)
    IN  IF RLess(allowed, Rat(required, 1))
        THEN [value |-> allowed, message |-> TRUE]
        ELSE [value |-> Rat(required, 1), message |-> FALSE]

\* PAV.propeller_locations, lines 1771-1817: the number of locations, one on
\* the nose and range(one_side) on each wing
propeller_locations(n) ==
    LET one_side == Trunc(n.num, 2 * n.den)
    IN  1 + 2 * (IF one_side > 0 THEN one_side ELSE 0)

\* generate_warning unless hide_warnings (lines 274-275, 1739-1740)
Warn(self, w, applies, header) ==
    IF applies /\ self.hide_warnings = FALSE THEN Append(w, header) ELSE w

\* an Attribute is evaluated on its first read and cached; the Attributes
\* it reads are evaluated before it
WithVelocity(st) ==
    IF st.out.velocity # NoValue THEN st
    ELSE LET r == velocity(pav_in)
         IN  [out |-> [st.out EXCEPT !.velocity = r.value],
              warnings |-> Warn(pav_in, st.warnings, r.message,
                                "Warning: value changed")]

WithCruiseMachNumber(st) ==
    IF st.out.cruise_mach_number # NoValue THEN st
    ELSE LET s1 == WithVelocity(st)
         IN  [s1 EXCEPT !.out.cruise_mach_number =
                            cruise_mach_number(pav_in, s1.out.velocity)]

WithNumberOfPropellers(st) ==
    IF st.out.number_of_propellers # NoValue THEN st
    ELSE LET s1 == WithVelocity(st)
             r == number_of_propellers(pav_in)
         IN  [out |-> [s1.out EXCEPT !.number_of_propellers = r.value],
              warnings |-> Warn(pav_in, s1.warnings, r.message,
                                "Warning: value needs to be changed")]

WithPropellerLocations(st) ==
    IF st.out.propeller_locations # -1 THEN st
    ELSE LET s1 == WithNumberOfPropellers(st)
         IN  [s1 EXCEPT !.out.propeller_locations =
                            propeller_locations(s1.out.number_of_propellers)]

Cached == [out |-> pav_out, warnings |-> pav_warnings]

driver == <<inputs, mass_map, pc, parts, converge, locals, outputs, calls,
            call_log, first_run>>

InitPAV ==
    /\ iterate = "False"
    /\ allowable_mass_difference = 500
    /\ evaluator = CHOOSE e \in Evaluators : e.kind = "halving"
    /\ mission \in MissionsOf(evaluator)
    /\ DriverStart
    /\ pav_in \in PAVInputs
    /\ pav_out = NoOutputs
    /\ pav_warnings = << >>
    /\ pav_pc = "ready"

ReadVelocity ==
    /\ pav_pc = "ready"
    /\ pav_out.velocity = NoValue
    /\ pav_out' = WithVelocity(Cached).out
    /\ pav_warnings' = WithVelocity(Cached).warnings
    /\ UNCHANGED <<driver, pav_in, pav_pc>>

ReadCruiseMachNumber ==
    /\ pav_pc = "ready"
    /\ pav_out.cruise_mach_number = NoValue
    /\ pav_out' = WithCruiseMachNumber(Cached).out
    /\ pav_warnings' = WithCruiseMachNumber(Cached).warnings
    /\ UNCHANGED <<driver, pav_in, pav_pc>>

\* mutant: propellers that do not fit are an error
ReadNumberOfPropellersStrict ==
    /\ pav_pc = "ready"
    /\ pav_out.number_of_propellers = NoValue
    /\ IF number_of_propellers(pav_in).message
       THEN /\ pav_pc' = "error"
            /\ pav_out' = WithVelocity(Cached).out
            /\ pav_warnings' = WithVelocity(Cached).warnings
       ELSE /\ pav_pc' = pav_pc
            /\ pav_out' = WithNumberOfPropellers(Cached).out
            /\ pav_warnings' = WithNumberOfPropellers(Cached).warnings
    /\ UNCHANGED <<driver, pav_in>>

ReadNumberOfPropellers ==
    /\ pav_pc = "ready"
    /\ pav_out.number_of_propellers = NoValue
    /\ pav_out' = WithNumberOfPropellers(Cached).out
    /\ pav_warnings' = WithNumberOfPropellers(Cached).warnings
    /\ pav_pc' = pav_pc
    /\ UNCHANGED <<driver, pav_in>>

ReadPropellerLocations ==
    /\ pav_pc = "ready"
    /\ pav_out.propeller_locations = -1
    /\ pav_out' = WithPropellerLocations(Cached).out
    /\ pav_warnings' = WithPropellerLocations(Cached).warnings
    /\ UNCHANGED <<driver, pav_in, pav_pc>>

NextPAV ==
    \/ ReadVelocity
    \/ ReadCruiseMachNumber
    \/ ReadNumberOfPropellers
    \/ ReadPropellerLocations

SpecPAV == InitPAV /\ [][NextPAV]_vars

(***************************************************************************)
(* Sizing attributes of class PAV (src/pav_classes/pav.py) and the         *)
(* profile check of LiftingSurface (src/pav_classes/lifting_surface.py),   *)
(* evaluated on one PAV.  Lengths are in mm, ranges in km; a point is      *)
(* <<x, y, z>>.  The geometry kernel (the cog of a solid) and the power    *)
(* formulas behind the rotor count are inputs.                             *)
(***************************************************************************)

\* required_range in km
RequiredRanges ==
    {-50, 0, 300, 499, 500, 800, 1000, 1001, 1500, 2999, 3000, 5000}

\* number_of_passengers: the validator admits 1 to 10
PassengerNumbers == 1..10

\* quality_level: 1 for economy, 2 for business
QualityLevels == {1, 2}

\* n_rotors_computed, in tenths of a rotor
RotorsComputed == {10, 30, 50, 70, 90}

\* distance_in_between: vertical_tail_start - front_connection_end
DistancesInBetween == {100, 500, 1500, 3000, 6000}

\* the cog of the solids of pav_components, wing at the front or further aft
Geometry(wing_x) ==
    [main_wing        |-> <<wing_x, 2400, 900>>,
     horizontal_tail  |-> <<6100, 1100, 300>>,
     vertical_tail    |-> <<5900, 1500, -200>>,
     fuselage         |-> <<2600, 0, 100>>,
     front_connection |-> <<1200, 900, -300>>,
     wheels           |-> << <<1500, -1400, -900>>, <<4500, -1400, -900>> >>,
     skids            |-> << <<3000, -1500, -800>>, <<3000, 1500, -800>> >>,
     propeller        |-> << <<-200, 0, 0>> >>,
     vtol             |-> << <<2000, -1500, -700>>, <<2000, 1500, -700>> >>]

Geometries == {Geometry(2000), Geometry(2900)}

FuselageLengths == {5000, 6500}

\* the profile Inputs of the lifting surfaces whose solids pav_components
\* reads: main_wing, horizontal_tail, vertical_tail and
\* right_front_connection_reference
LiftingSurfaces ==
    << [name |-> "main_wing", number_of_profiles |-> 4,
        airfoils |-> <<"24018", "24015", "24012", "24010">>],
       [name |-> "horizontal_tail", number_of_profiles |-> 2,
        airfoils |-> <<"2212", "2212">>],
       [name |-> "vertical_tails", number_of_profiles |-> 2,
        airfoils |-> <<"0012">>],
       [name |-> "front_connections", number_of_profiles |-> 2,
        airfoils |-> <<"0012">>] >>

SizingDefaults ==
    [hide_warnings |-> FALSE, required_range |-> 500,
     number_of_passengers |-> 4, quality_level |-> 1,
     n_rotors_computed |-> 30, distance_in_between |-> 3000,
     fuselage_length |-> 5000, geometry |-> Geometry(2000)]

\* the inputs of one PAV: the inputs of one group of attributes vary, those
\* of the other groups (which the group does not read) are at their defaults
SizingInputsWith(h) ==
    { [SizingDefaults EXCEPT !.hide_warnings = h, !.required_range = r]
        : r \in RequiredRanges }
    \cup
    { [SizingDefaults EXCEPT !.hide_warnings = h,
                             !.number_of_passengers = c[1],
                             !.n_rotors_computed = c[2],
                             !.distance_in_between = c[3]]
        : c \in PassengerNumbers \X RotorsComputed \X DistancesInBetween }
    \cup
    { [SizingDefaults EXCEPT !.hide_warnings = h,
                             !.quality_level = c[1],
                             !.fuselage_length = c[2],
                             !.geometry = c[3]]
        : c \in QualityLevels \X FuselageLengths \X Geometries }

SizingInputs == SizingInputsWith(TRUE) \cup SizingInputsWith(FALSE)

\* mutant: 1000 km counts as a typo too
rangeInclusive(self) ==
    LET intended_range == self.required_range
    IN  IF 1000 <= intended_range /\ intended_range < 3000
        THEN [value |-> Rat(intended_range, 10), message |-> TRUE]
        ELSE IF intended_range >= 500
        THEN [value |-> Rat(500, 1), message |-> TRUE]
        ELSE [value |-> Rat(intended_range, 1), message |-> FALSE]

\* PAV.range, lines 280-309: the value returned and whether the message
\* applies
range(self) ==
    LET intended_range == self.required_range
    IN  IF 1000 < intended_range /\ intended_range < 3000
        THEN [value |-> Rat(intended_range, 10), message |-> TRUE]
        ELSE IF intended_range >= 500
        THEN [value |-> Rat(500, 1), message |-> TRUE]
        ELSE [value |-> Rat(intended_range, 1), message |-> FALSE]

\* PAV.seat_width, lines 645-648
seat_width(self) == IF self.quality_level = 2 THEN 700 ELSE 500

\* PAV.number_of_seats_abreast, lines 650-655
number_of_seats_abreast(self) ==
    IF self.number_of_passengers < 4 THEN 1 ELSE 2

\* PAV.number_of_rows, lines 657-662
number_of_rows(self) ==
    Ceil(self.number_of_passengers, number_of_seats_abreast(self))

\* PAV.cabin_width, lines 666-670
cabin_width(self) == seat_width(self) * number_of_seats_abreast(self) + 200

\* PAV.cabin_height, lines 672-677
cabin_height(self) ==
    IF cabin_width(self) >= 1600 THEN cabin_width(self) ELSE 1600

\* PAV.vtol_propeller_radius, lines 1879-1883
vtol_propeller_radius(self) ==
    Max(<<400, Min(<<800, number_of_rows(self) * 150>>)>>)

\* PAV.number_of_vtol_propellers, lines 1864-1877
number_of_vtol_propellers(self) ==
    LET n_rotors_per_side == Ceil(self.n_rotors_computed, 20)
    IN  n_rotors_per_side * 2

MARGIN_FOR_TAIL_AND_CONNECTION == 200

\* PAV.vtol_propeller_locations, lines 1971-2303: the lateral position of
\* every location returned, -1 for - lateral_position_of_skids and 1 for
\* lateral_position_of_skids
vtol_propeller_locations(self, n) ==
    LET rotors_in_between ==
            ((self.distance_in_between - MARGIN_FOR_TAIL_AND_CONNECTION)
                * prop_separation_factor.den)
            \div (vtol_propeller_radius(self) * 2
                    * prop_separation_factor.num)
        rotors_outside == Max(<<n \div 2 - rotors_in_between, 0>>)
        rotors_outside_result ==
            IF rotors_outside % 2 # 0 THEN rotors_outside + 1
            ELSE rotors_outside
        rotors_in_between_result ==
            Max(<<n \div 2 - rotors_outside_result, 0>>)
        side == rotors_outside_result + rotors_in_between_result
        lateral_position ==
            [i \in 1..(2 * side) |-> IF i <= side THEN -1 ELSE 1]
        rotors_in_front == rotors_outside_result \div 2
        rotors_behind_vt == rotors_outside_result \div 2
        x_positions ==
            IF rotors_in_front > 0
            THEN 2 * (rotors_in_front + rotors_in_between_result
                        + rotors_behind_vt)
            ELSE 2 * rotors_in_between_result
    IN  [index \in 1..x_positions |-> lateral_position[index]]

\* PAV.arrange_skids, lines 1956-1969: the lateral positions of the rotors
\* whose hub cones are taken for the first and for the second skid
arrange_skids(n, locations) ==
    << [index \in 1..(n \div 2) |-> locations[index]],
       [index \in 1..(n - n \div 2) |-> locations[n \div 2 + index]] >>

\* Python's truth value of a string
Truthy(str) == str # ""

SingleComponents ==
    {"main_wing", "horizontal_tail", "vertical_tail", "fuselage",
     "front_connection", "payload", "battery"}

ListComponents == {"wheels", "skids", "propeller", "vtol"}

\* PAV.pav_components, lines 450-483: the cog of each solid; the wheels are
\* listed twice
pav_components(self) ==
    [self.geometry EXCEPT !.wheels = self.geometry.wheels
                                        \o self.geometry.wheels]

\* PAV.center_of_gravity_of_components, lines 485-547
center_of_gravity_of_components(self) ==
    [component \in SingleComponents \cup ListComponents |->
        IF component \in SingleComponents
        THEN LET value ==
                     IF component = "battery"
                     THEN <<self.fuselage_length \div 4, 0, 0>>
                     ELSE IF component = "payload"
                     THEN <<self.fuselage_length \div 2,
                            -(cabin_height(self) \div 5), 0>>
                     ELSE pav_components(self)[component]
             IN  IF \/ component = "main_wing"
                    \/ Truthy("horizontal_tail")
                    \/ Truthy("vertical_tail")
                    \/ Truthy("front_connection")
                 THEN [value EXCEPT ![2] = 0]
                 ELSE value
        ELSE LET list == pav_components(self)[component]
             IN  [index \in 1..Len(list) |->
                    IF component = "wheels" /\ 2 * (index - 1) >= Len(list)
                    THEN [list[index] EXCEPT ![2] = -list[index][2]]
                    ELSE list[index]]]

\* LiftingSurface.profile_shape, lines 80-102: the value returned and
\* whether a message applies
profile_shape(surface) ==
    [value |-> surface.airfoils,
     message |-> Len(surface.airfoils) # surface.number_of_profiles]

\* generate_warning as profile_shape calls it (lines 93, 101)
WarnShape(w, applies) ==
    IF applies THEN Append(w, "Warning: shape adjusted") ELSE w

\* the solids of pav_components are built on the first read of their cog:
\* each lifting surface evaluates its profile_shape
RECURSIVE WithSolids(_, _)
WithSolids(w, k) ==
    IF k > Len(LiftingSurfaces) THEN w
    ELSE WithSolids(WarnShape(w, profile_shape(LiftingSurfaces[k]).message),
                    k + 1)

NoSizing ==
    [evaluated |-> {}, range |-> NoValue, number_of_seats_abreast |-> -1,
     number_of_vtol_propellers |-> -1, vtol_propeller_locations |-> << >>,
     arrange_skids |-> << >>, center_of_gravity_of_components |-> << >>]

Done(st, a) == [st.out EXCEPT !.evaluated = @ \cup {a}]

WithRange(st) ==
    IF "range" \in st.out.evaluated THEN st
    ELSE LET r == range(pav_in)
         IN  [out |-> [Done(st, "range") EXCEPT !.range = r.value],
              warnings |-> Warn(pav_in, st.warnings, r.message,
                                "Warning: value changed")]

WithNumberOfSeatsAbreast(st) ==
    IF "number_of_seats_abreast" \in st.out.evaluated THEN st
    ELSE [st EXCEPT !.out =
            [Done(st, "number_of_seats_abreast")
                EXCEPT !.number_of_seats_abreast =
                            number_of_seats_abreast(pav_in)]]

WithNumberOfVtolPropellers(st) ==
    IF "number_of_vtol_propellers" \in st.out.evaluated THEN st
    ELSE [st EXCEPT !.out =
            [Done(st, "number_of_vtol_propellers")
                EXCEPT !.number_of_vtol_propellers =
                            number_of_vtol_propellers(pav_in)]]

WithVtolPropellerLocations(st) ==
    IF "vtol_propeller_locations" \in st.out.evaluated THEN st
    ELSE LET s1 == WithNumberOfSeatsAbreast(WithNumberOfVtolPropellers(st))
         IN  [s1 EXCEPT !.out =
                [Done(s1, "vtol_propeller_locations")
                    EXCEPT !.vtol_propeller_locations =
                        vtol_propeller_locations(
                            pav_in, s1.out.number_of_vtol_propellers)]]

WithArrangeSkids(st) ==
    IF "arrange_skids" \in st.out.evaluated THEN st
    ELSE LET s1 == WithVtolPropellerLocations(st)
         IN  [s1 EXCEPT !.out =
                [Done(s1, "arrange_skids")
                    EXCEPT !.arrange_skids =
                        arrange_skids(s1.out.number_of_vtol_propellers,
                                      s1.out.vtol_propeller_locations)]]

WithCenterOfGravityOfComponents(st) ==
    IF "center_of_gravity_of_components" \in st.out.evaluated THEN st
    ELSE LET s1 == WithNumberOfSeatsAbreast(st)
         IN  [out |-> [Done(s1, "center_of_gravity_of_components")
                          EXCEPT !.center_of_gravity_of_components =
                              center_of_gravity_of_components(pav_in)],
              warnings |-> WithSolids(s1.warnings, 1)]

InitSizing ==
    /\ iterate = "False"
    /\ allowable_mass_difference = 500
    /\ evaluator = CHOOSE e \in Evaluators : e.kind = "halving"
    /\ mission \in MissionsOf(evaluator)
    /\ DriverStart
    /\ pav_in \in SizingInputs
    /\ pav_out = NoSizing
    /\ pav_warnings = << >>
    /\ pav_pc = "ready"

ReadRange ==
    /\ pav_pc = "ready"
    /\ "range" \notin pav_out.evaluated
    /\ pav_out' = WithRange(Cached).out
    /\ pav_warnings' = WithRange(Cached).warnings
    /\ UNCHANGED <<driver, pav_in, pav_pc>>

ReadNumberOfSeatsAbreast ==
    /\ pav_pc = "ready"
    /\ "number_of_seats_abreast" \notin pav_out.evaluated
    /\ pav_out' = WithNumberOfSeatsAbreast(Cached).out
    /\ pav_warnings' = WithNumberOfSeatsAbreast(Cached).warnings
    /\ UNCHANGED <<driver, pav_in, pav_pc>>

ReadNumberOfVtolPropellers ==
    /\ pav_pc = "ready"
    /\ "number_of_vtol_propellers" \notin pav_out.evaluated
    /\ pav_out' = WithNumberOfVtolPropellers(Cached).out
    /\ pav_warnings' = WithNumberOfVtolPropellers(Cached).warnings
    /\ UNCHANGED <<driver, pav_in, pav_pc>>

ReadVtolPropellerLocations ==
    /\ pav_pc = "ready"
    /\ "vtol_propeller_locations" \notin pav_out.evaluated
    /\ pav_out' = WithVtolPropellerLocations(Cached).out
    /\ pav_warnings' = WithVtolPropellerLocations(Cached).warnings
    /\ UNCHANGED <<driver, pav_in, pav_pc>>

ReadArrangeSkids ==
    /\ pav_pc = "ready"
    /\ "arrange_skids" \notin pav_out.evaluated
    /\ pav_out' = WithArrangeSkids(Cached).out
    /\ pav_warnings' = WithArrangeSkids(Cached).warnings
    /\ UNCHANGED <<driver, pav_in, pav_pc>>

\* read by mass and centre_of_gravity_result, hence by every evaluation of
\* the scan (iterator.py, lines 122-123)
ReadCenterOfGravityOfComponents ==
    /\ pav_pc = "ready"
    /\ "center_of_gravity_of_components" \notin pav_out.evaluated
    /\ pav_out' = WithCenterOfGravityOfComponents(Cached).out
    /\ pav_warnings' = WithCenterOfGravityOfComponents(Cached).warnings
    /\ UNCHANGED <<driver, pav_in, pav_pc>>

NextSizing ==
    \/ ReadRange
    \/ ReadNumberOfSeatsAbreast
    \/ ReadNumberOfVtolPropellers
    \/ ReadVtolPropellerLocations
    \/ ReadArrangeSkids
    \/ ReadCenterOfGravityOfComponents

SpecSizing == InitSizing /\ [][NextSizing]_vars

(***************************************************************************)
(* PAV.wing_span and PAV.wing_aspect_ratio in binary64.  A square root, a  *)
(* square and a quotient need the exact value of up to 106 bits before     *)
(* rounding: a natural number is the sequence of its digits to the base    *)
(* Radix, lowest first and without leading zero digit, and a double is     *)
(* [m, e] with value m * 2^e, m of at most 53 bits (or 2^53).              *)
(***************************************************************************)
Radix == 2^15

RECURSIVE BTrim(_)
BTrim(a) ==
    IF a # << >> /\ a[Len(a)] = 0 THEN BTrim(SubSeq(a, 1, Len(a) - 1))
    ELSE a

RECURSIVE BNat(_)
BNat(n) == IF n = 0 THEN << >> ELSE <<n % Radix>> \o BNat(n \div Radix)

RECURSIVE BAddC(_, _, _)
BAddC(a, b, c) ==
    IF a = << >> /\ b = << >> THEN (IF c = 0 THEN << >> ELSE <<c>>)
    ELSE LET x == IF a = << >> THEN 0 ELSE Head(a)
             y == IF b = << >> THEN 0 ELSE Head(b)
             t == x + y + c
         IN  <<t % Radix>>
                \o BAddC(IF a = << >> THEN a ELSE Tail(a),
                         IF b = << >> THEN b ELSE Tail(b), t \div Radix)

BAdd(a, b) == BAddC(a, b, 0)

\* a - b for a >= b
RECURSIVE BSubC(_, _, _)
BSubC(a, b, c) ==
    IF a = << >> THEN << >>
    ELSE LET y == IF b = << >> THEN 0 ELSE Head(b)
             t == Head(a) - y - c
         IN  <<(t + Radix) % Radix>>
                \o BSubC(Tail(a), IF b = << >> THEN b ELSE Tail(b),
                         IF t < 0 THEN 1 ELSE 0)

BSub(a, b) == BTrim(BSubC(a, b, 0))

\* a * d for a digit d
RECURSIVE BMulSmallC(_, _, _)
BMulSmallC(a, d, c) ==
    IF a = << >> THEN (IF c = 0 THEN << >> ELSE <<c>>)
    ELSE LET t == Head(a) * d + c
         IN  <<t % Radix>> \o BMulSmallC(Tail(a), d, t \div Radix)

BMulSmall(a, d) == BTrim(BMulSmallC(a, d, 0))

RECURSIVE BMul(_, _)
BMul(a, b) ==
    IF a = << >> \/ b = << >> THEN << >>
    ELSE LET r == BMul(a, Tail(b))
         IN  BAdd(BMulSmall(a, Head(b)),
                  IF r = << >> THEN r ELSE <<0>> \o r)

\* -1, 0 or 1 as a < b, a = b or a > b
RECURSIVE BCmp(_, _)
BCmp(a, b) ==
    IF Len(a) # Len(b) THEN (IF Len(a) < Len(b) THEN -1 ELSE 1)
    ELSE IF a = << >> THEN 0
    ELSE IF a[Len(a)] # b[Len(b)]
         THEN (IF a[Len(a)] < b[Len(b)] THEN -1 ELSE 1)
    ELSE BCmp(SubSeq(a, 1, Len(a) - 1), SubSeq(b, 1, Len(b) - 1))

\* quotient and remainder of a by a digit d > 0
RECURSIVE BDivSmallR(_, _)
BDivSmallR(a, d) ==
    IF a = << >> THEN [q |-> << >>, r |-> 0]
    ELSE LET hi == BDivSmallR(Tail(a), d)
             t == hi.r * Radix + Head(a)
         IN  [q |-> <<t \div d>> \o hi.q, r |-> t % d]

BDivSmall(a, d) ==
    LET x == BDivSmallR(a, d) IN [q |-> BTrim(x.q), r |-> x.r]

RECURSIVE Bits(_)
Bits(n) == IF n = 0 THEN 0 ELSE 1 + Bits(n \div 2)

BBits(a) == IF a = << >> THEN 0 ELSE 15 * (Len(a) - 1) + Bits(a[Len(a)])

\* a * 2^k
BShl(a, k) ==
    IF a = << >> THEN a
    ELSE BMulSmall([i \in 1..(k \div 15) |-> 0] \o a, 2^(k % 15))

\* a divided by 2^k, rounded down
BShr(a, k) ==
    IF k \div 15 >= Len(a) THEN << >>
    ELSE BDivSmall(SubSeq(a, k \div 15 + 1, Len(a)), 2^(k % 15)).q

\* x rounded to 53 bits, to nearest and ties to even, as m * 2^sh; sticky
\* tells that the exact value lies above x (and below x + 1)
\* q or q + 1 as the part c dropped from q * 2^sh compares with half a unit
BRoundTo(q, sh, sticky, c) ==
    [m |-> IF c > 0 \/ (c = 0 /\ (sticky \/ q[1] % 2 = 1))
           THEN BAdd(q, <<1>>) ELSE q,
     sh |-> sh]

BRoundFrom(x, sticky, sh, q) ==
    BRoundTo(q, sh, sticky,
             BCmp(BSub(x, BShl(q, sh)), BShl(<<1>>, sh - 1)))

BRoundAt(x, sticky, sh) == BRoundFrom(x, sticky, sh, BShr(x, sh))

BRound(x, sticky) ==
    IF BBits(x) <= 53 THEN [m |-> x, sh |-> 0]
    ELSE BRoundAt(x, sticky, BBits(x) - 53)

\* c * c <= x
SquareAtMost(c, x) == BCmp(BMul(c, c), x) <= 0

\* the largest r with r * r <= x, for x below 2^106
RECURSIVE ISqrtFrom(_, _, _)
ISqrtFrom(x, r, bit) ==
    IF bit < 0 THEN r
    ELSE IF SquareAtMost(BAdd(r, BShl(<<1>>, bit)), x)
         THEN ISqrtFrom(x, BAdd(r, BShl(<<1>>, bit)), bit - 1)
    ELSE ISqrtFrom(x, r, bit - 1)

ISqrt(x) == ISqrtFrom(x, << >>, 52)

\* the double of value n * 2^e for a small natural number n
Double(n, e) == [m |-> BNat(n), e |-> e]

\* a < b for doubles
DLess(a, b) ==
    IF a.e >= b.e THEN BCmp(BShl(a.m, a.e - b.e), b.m) < 0
    ELSE BCmp(a.m, BShl(b.m, b.e - a.e)) < 0

\* the double of a rounded integer r.m * 2^r.sh, times 2^e
Scaled(r, e) == [m |-> r.m, e |-> e + r.sh]

\* a * b in binary64
DMul(a, b) == Scaled(BRound(BMul(a.m, b.m), FALSE), a.e + b.e)

\* the shift that gives a.m 105 or 106 bits and an even exponent
SqrtShift(a) ==
    LET s0 == 105 - BBits(a.m)
    IN  IF (a.e - s0) % 2 = 0 THEN s0 ELSE s0 + 1

\* r = ISqrt(x) rounded to nearest: up when x > (r + 1/2)^2 = r*r + r + 1/4
DSqrtRound(x, r, e) ==
    [m |-> IF BCmp(x, BAdd(BMul(r, r), r)) > 0 THEN BAdd(r, <<1>>) ELSE r,
     e |-> e \div 2]

DSqrtScaled(x, e) == DSqrtRound(x, ISqrt(x), e)

\* math.sqrt(a) in binary64 (correctly rounded), a > 0
DSqrt(a) == DSqrtScaled(BShl(a.m, SqrtShift(a)), a.e - SqrtShift(a))

BRoundQuotient(x) == BRound(x.q, x.r # 0)

\* a / b in binary64 for a divisor of one digit: b = d * 2^e
DDivSmall(a, d, e) ==
    Scaled(BRoundQuotient(BDivSmall(BShl(a.m, 70), d)), a.e - 70 - e)

\* wing_area and maximum_span in quarters of m2 and of m
WingAreas == {40, 48, 60, 64, 80, 93, 120}

MaximumSpans == {16, 24, 36, 40, 48, 56, 72}

WingInputs ==
    [wing_area : WingAreas, maximum_span : MaximumSpans,
     hide_warnings : BOOLEAN]

\* PAV.intended_wing_aspect_ratio, lines 740-744
intended_wing_aspect_ratio == 10

\* mutant: the maximum span is kept whatever aspect ratio it gives
wing_spanLimited(self) ==
    LET span == DSqrt(Double(intended_wing_aspect_ratio * self.wing_area,
                             -2))
        maximum_span == Double(self.maximum_span, -2)
    IN  [value |-> IF DLess(span, maximum_span) THEN span ELSE maximum_span,
         message |-> FALSE]

\* PAV.wing_span, lines 311-336: the value returned and whether the message
\* applies
wing_span(self) ==
    LET span == DSqrt(Double(intended_wing_aspect_ratio * self.wing_area,
                             -2))
        maximum_span == Double(self.maximum_span, -2)
        intermediate_span ==
            IF DLess(span, maximum_span) THEN span ELSE maximum_span
        aspect_ratio ==
            DDivSmall(DMul(intermediate_span, intermediate_span),
                      self.wing_area, -2)
    IN  IF DLess(aspect_ratio, Double(6, 0))
        THEN [value |-> DSqrt(Double(6 * self.wing_area, -2)),
              message |-> TRUE]
        ELSE [value |-> intermediate_span, message |-> FALSE]

\* PAV.wing_aspect_ratio, lines 746-749
wing_aspect_ratio(self, span) ==
    DDivSmall(DMul(span, span), self.wing_area, -2)

NoDouble == [m |-> << >>, e |-> 0]

NoWing == [evaluated |-> {}, wing_span |-> NoDouble,
           wing_aspect_ratio |-> NoDouble]

WithWingSpan(st) ==
    IF "wing_span" \in st.out.evaluated THEN st
    ELSE LET r == wing_span(pav_in)
         IN  [out |-> [Done(st, "wing_span") EXCEPT !.wing_span = r.value],
              warnings |-> Warn(pav_in, st.warnings, r.message,
                                "Warning: value changed")]

WithWingAspectRatio(st) ==
    IF "wing_aspect_ratio" \in st.out.evaluated THEN st
    ELSE LET s1 == WithWingSpan(st)
         IN  [s1 EXCEPT !.out =
                [Done(s1, "wing_aspect_ratio")
                    EXCEPT !.wing_aspect_ratio =
                        wing_aspect_ratio(pav_in, s1.out.wing_span)]]

InitWing ==
    /\ iterate = "False"
    /\ allowable_mass_difference = 500
    /\ evaluator = CHOOSE e \in Evaluators : e.kind = "halving"
    /\ mission \in MissionsOf(evaluator)
    /\ DriverStart
    /\ pav_in \in WingInputs
    /\ pav_out = NoWing
    /\ pav_warnings = << >>
    /\ pav_pc = "ready"

ReadWingSpan ==
    /\ pav_pc = "ready"
    /\ "wing_span" \notin pav_out.evaluated
    /\ LET st == WithWingSpan(Cached)
       IN  /\ pav_out' = st.out
           /\ pav_warnings' = st.warnings
    /\ UNCHANGED <<driver, pav_in, pav_pc>>

ReadWingAspectRatio ==
    /\ pav_pc = "ready"
    /\ "wing_aspect_ratio" \notin pav_out.evaluated
    /\ LET st == WithWingAspectRatio(Cached)
       IN  /\ pav_out' = st.out
           /\ pav_warnings' = st.warnings
    /\ UNCHANGED <<driver, pav_in, pav_pc>>

NextWing ==
    \/ ReadWingSpan
    \/ ReadWingAspectRatio

SpecWing == InitWing /\ [][NextWing]_vars

(***************************************************************************)
(* The invoice: pdf_creator (src/pdf_generator.py) with the arguments      *)
(* main.py takes from the designed PAV (pav_in), producing the cost        *)
(* breakdown of the invoice (pav_out).  The arguments span and length      *)
(* are strings with two decimals, here whole cm; prices are in cents.      *)
(***************************************************************************)

InvoiceInputs ==
    [n_passengers : {1, 4, 10},
     range : {200, 500},
     velocity : {300, 400},
     quality : {"Economy", "Business"},
     wheels : {"Yes", "No"},
     span : {850, 1200},
     length : {520, 675},
     prim_col : {"white", "White", "Blue"},
     sec_col : {"red", "Red"}]

\* '${:,.2f}'.format(price): the dollars and the two digits after the point
Format(price) == [dollars |-> price \div 100, cents |-> price % 100]

\* insert(2, item) on a list of at least two items
Insert2(list, item) ==
    SubSeq(list, 1, 2) \o <<item>> \o SubSeq(list, 3, Len(list))

NoInvoice == [cost_names |-> << >>, cost_values |-> << >>,
              total_cost |-> Format(0)]

\* pdf_creator, lines 31-64: the cost breakdown and the total
pdf_creator(self) ==
    LET base_price ==
            ((self.span + self.length + 5 * self.n_passengers * 100) * 200
             + (self.range + self.velocity) * 50 * 100) + 7500 * 100
        quality_price ==
            IF self.quality = "Economy" THEN 0
            ELSE 1000 * self.n_passengers * 100
        wheel_price == 3000 * 100
        primary_price == IF self.prim_col = "white" THEN 0 ELSE 500 * 100
        secondary_price == IF self.sec_col = "red" THEN 0 ELSE 250 * 100
        total_price == base_price + quality_price + wheel_price
                        + primary_price + secondary_price
        cost_names == <<"Basic price", "Additional cost for cabin design",
                        "Cost for primary colour",
                        "Cost for secondary colour">>
        cost_values == <<Format(base_price), Format(quality_price),
                         Format(primary_price), Format(secondary_price)>>
    IN  [cost_names |->
            IF self.wheels = "Yes"
            THEN Insert2(cost_names, "Additional cost for wheels")
            ELSE cost_names,
         cost_values |->
            IF self.wheels = "Yes"
            THEN Insert2(cost_values, Format(wheel_price))
            ELSE cost_values,
         total_cost |-> Format(total_price)]

InitInvoice ==
    /\ iterate = "False"
    /\ allowable_mass_difference = 500
    /\ evaluator = CHOOSE e \in Evaluators : e.kind = "halving"
    /\ mission \in MissionsOf(evaluator)
    /\ DriverStart
    /\ pav_in \in InvoiceInputs
    /\ pav_out = NoInvoice
    /\ pav_warnings = << >>
    /\ pav_pc = "ready"

PdfCreator ==
    /\ pav_pc = "ready"
    /\ pav_out' = pdf_creator(pav_in)
    /\ pav_pc' = "written"
    /\ UNCHANGED <<driver, pav_in, pav_warnings>>

NextInvoice == PdfCreator

SpecInvoice == InitInvoice /\ [][NextInvoice]_vars

(***************************************************************************)
(* Properties                                                              *)
(***************************************************************************)

\* the mass gap the outer while tests
MassGap == Abs(original_mass - resulting_mass)

\* a scan has been completed and its winner selected
ScanSelected ==
    /\ outer_loop >= 1
    /\ pc # "while_inner"
    /\ pc = "error" => converge.computed

\* the place of the returned position in the last scan
Winner == CHOOSE i \in 1..Len(position_list) :
              position_list[i] = resulting_position

\* C1: whatever the evaluator and the tolerance, the outer loop of converge
\* runs at most 3 times, and after the third iteration the loop is left and
\* converge returns, also when the mass gap is still above the tolerance.
C1_OuterLoopBounded ==
    /\ outer_loop <= OuterCap
    /\ (pc = "while_outer" /\ outer_loop = OuterCap)
          => (ENABLED Return /\ ~ENABLED OuterLoop)

C1_Witness ==
    /\ converge.computed
    /\ outer_loop = OuterCap
    /\ MassGap > allowable_mass_difference

\* C2: the number of evaluator calls of a run (initial aircraft, every
\* sample of every scan, final aircraft) never exceeds 3 * (12 + 1) = 39.
C2_CallBound == calls <= OuterCap * (12 + 1)

C2_Witness == pc = "done" /\ calls = 38

\* C3: with iterate = False every output read is that of the initial
\* aircraft, one evaluator call is issued in all, converge is never
\* evaluated (its outer loop never entered) and new_aircraft is never built.
C3_Bypass ==
    iterate = "False" =>
        /\ pc \in {"main", "done"}
        /\ ~converge.computed
        /\ outer_loop = -1
        /\ ~new_aircraft.built
        /\ calls <= 1
        /\ \A i \in 1..Len(outputs) :
              /\ outputs[i].aircraft = initial_aircraft
              /\ outputs[i].aircraft.label = "Quick_PAV"
              /\ calls = 1
        /\ pc = "done" => Len(outputs) = Len(OutputOrder)

C3_Witness ==
    /\ iterate = "False"
    /\ pc = "done"
    /\ calls = 1
    /\ Len(outputs) = 4

\* C4: after a complete scan the selected sample has a combined tail area
\* not above that of any sample of the scan; for a parabola with its
\* minimum at an interior grid point, that grid point is the one selected.
C4_MinimumArea ==
    ScanSelected =>
        /\ \E i \in 1..Len(position_list) : position_list[i] = resulting_position
        /\ \A j \in 1..Len(area_list) : area_list[Winner] <= area_list[j]
        /\ LET kmin == (evaluator.area.amin + evaluator.area.adrift
                           * (LevelOf(original_mass) + original_cg))
                       % (Len(Grid) + 1)
           IN  (/\ evaluator.area.flat = 1
                /\ evaluator.area.vslope = 0
                /\ kmin \in 1..(Len(Grid) - 2))
               => resulting_position = Grid[kmin + 1]

C4_Witness ==
    /\ ScanSelected
    /\ evaluator.area.flat = 1
    /\ evaluator.area.vslope = 0
    /\ evaluator.area.amin = 6
    /\ resulting_position = Grid[7]

\* C5: among several samples of one scan with the minimum combined area the
\* first scanned (most forward) one is selected; with a constant area the
\* selected position is 0.2.
C5_FirstOfTies ==
    ScanSelected =>
        /\ \A j \in 1..Len(area_list) :
              area_list[j] = area_list[Winner] => Winner <= j
        /\ evaluator.area.flat = 144 => resulting_position = position_start

C5_Witness ==
    /\ ScanSelected
    /\ evaluator.area.flat = 144
    /\ resulting_position = position_start
    /\ \A j \in 1..Len(area_list) : area_list[j] = area_list[1]
    /\ Len(area_list) = 12

\* C6: at the test of the outer while a new iteration starts exactly when
\* the mass gap is strictly above the tolerance and fewer than 3 iterations
\* have run, otherwise converge returns; so when converge has returned the
\* gap is at most the tolerance or 3 iterations have run.
C6_LoopTest ==
    /\ [][pc = "while_outer" =>
            IF MassGap > allowable_mass_difference /\ outer_loop < 3
            THEN pc' = "while_inner" /\ outer_loop' = outer_loop + 1
            ELSE pc' = "main" /\ converge'.computed /\ outer_loop' = outer_loop
         ]_vars
    /\ [](converge.computed =>
            (MassGap <= allowable_mass_difference \/ outer_loop = 3))

C6_Witness ==
    /\ converge.computed
    /\ MassGap = allowable_mass_difference
    /\ outer_loop \in 1..2

\* the gap between the assumed and the computed mass of the initial aircraft
InitialGap ==
    Abs(initial_aircraft.maximum_take_off_weight
        - initial_aircraft.expected_maximum_take_off_weight)

\* the mass and c.g. assumed by the evaluation the returned triple is from
AssumedMass ==
    IF outer_loop = 0 THEN initial_aircraft.maximum_take_off_weight
    ELSE original_mass

AssumedCg ==
    IF outer_loop = 0 THEN initial_aircraft.centre_of_gravity
    ELSE original_cg

\* the combined tail area the evaluator gives at a position
CombinedArea(pos, m, c) ==
    HorizontalTailArea(evaluator, pos, m, c)
        + VerticalTailArea(evaluator, pos, m, c)

\* C7, as claimed: with a gap-halving evaluator (and the default tolerance
\* of 500 N) converge stops with the mass criterion met within the 3
\* iterations.
C7_Original ==
    (/\ evaluator.kind = "halving"
     /\ allowable_mass_difference = 500
     /\ converge.computed)
        => (MassGap <= allowable_mass_difference /\ outer_loop <= OuterCap)

\* C7, amended: with a gap-halving evaluator the gap after k outer
\* iterations is the initial gap divided by 2^k, and converge stops with
\* the criterion met exactly when the initial gap is at most 8 times the
\* tolerance; otherwise it returns after 3 iterations with the gap above
\* the tolerance.
C7_HalvingConverges ==
    (evaluator.kind = "halving" /\ converge.computed) =>
        /\ MassGap * (2 ^ outer_loop) = InitialGap
        /\ MassGap <= allowable_mass_difference
              <=> InitialGap <= 8 * allowable_mass_difference
        /\ MassGap > allowable_mass_difference => outer_loop = OuterCap
        /\ DOMAIN converge = {"computed", "position", "mass", "cg"}

C7_Witness ==
    /\ evaluator.kind = "halving"
    /\ converge.computed
    /\ outer_loop = OuterCap
    /\ MassGap = allowable_mass_difference
    /\ InitialGap = 8 * allowable_mass_difference

\* C8, as claimed: in every run with iterate enabled the returned wing
\* position has the least combined tail area of all scanned positions.
C8_Original ==
    (IsTrue(iterate) /\ converge.computed) =>
        \A i \in 1..Len(Grid) :
            CombinedArea(converge.position, AssumedMass, AssumedCg)
                <= CombinedArea(Grid[i], AssumedMass, AssumedCg)

\* C8, amended: when at least one outer iteration ran, the returned wing
\* position has the least combined tail area of the positions scanned, at
\* the mass and c.g. assumed in the last scan; when none ran, no position
\* was scanned and the default position of the initial aircraft is returned.
C8_OptimalAfterScan ==
    converge.computed =>
        IF outer_loop >= 1
        THEN \A i \in 1..Len(Grid) :
                CombinedArea(converge.position, original_mass, original_cg)
                    <= CombinedArea(Grid[i], original_mass, original_cg)
        ELSE /\ converge.position = default_wing_position
             /\ position_list = <<>>
             /\ calls = IF new_aircraft.built THEN 2 ELSE 1

C8_Witness ==
    /\ converge.computed
    /\ outer_loop >= 1
    /\ evaluator.area.vslope = 2
    /\ converge.position \notin {Grid[1], Grid[Len(Grid)]}

\* C9, as claimed: when the loop ran and ended with the mass criterion met,
\* the assumed and the computed take-off weight of new_aircraft differ by at
\* most the tolerance.
C9_Original ==
    (/\ new_aircraft.built
     /\ outer_loop >= 1
     /\ MassGap <= allowable_mass_difference) =>
        Abs(new_aircraft.maximum_take_off_weight
            - new_aircraft.expected_maximum_take_off_weight)
            <= allowable_mass_difference

\* C9, amended: new_aircraft is evaluated at the returned position with the
\* returned mass and c.g. as its assumed values; when the loop ended with
\* the criterion met, the returned mass is the mass computed by the winning
\* evaluation and is within the tolerance of the mass that evaluation
\* assumed; the gap of new_aircraft itself is within the tolerance when the
\* evaluator halves the gap.
C9_ReturnedMassConsistent ==
    new_aircraft.built =>
        /\ new_aircraft.longitudinal_wing_position = converge.position
        /\ new_aircraft.maximum_take_off_weight = converge.mass
        /\ new_aircraft.centre_of_gravity = converge.cg
        /\ MassGap <= allowable_mass_difference =>
              /\ converge.mass =
                    ExpectedMass(evaluator, mass_map, converge.position,
                                 AssumedMass, AssumedCg)
              /\ Abs(AssumedMass - converge.mass) <= allowable_mass_difference
              /\ evaluator.kind = "halving" =>
                    Abs(new_aircraft.maximum_take_off_weight
                        - new_aircraft.expected_maximum_take_off_weight)
                        <= allowable_mass_difference

C9_Witness ==
    /\ new_aircraft.built
    /\ outer_loop >= 1
    /\ MassGap <= allowable_mass_difference
    /\ Abs(new_aircraft.maximum_take_off_weight
           - new_aircraft.expected_maximum_take_off_weight)
           <= allowable_mass_difference
    /\ new_aircraft.maximum_take_off_weight # original_mass

\* C10: the returned position, mass and c.g. are those of one sample, the
\* first sample of least combined area of the last scan (the initial
\* aircraft when no scan ran), and the returned mass is the mass computed
\* for that sample.
C10_OneSample ==
    converge.computed =>
        IF outer_loop = 0
        THEN /\ converge.position = initial_aircraft.longitudinal_wing_position
             /\ converge.mass = initial_aircraft.expected_maximum_take_off_weight
             /\ converge.cg = initial_aircraft.centre_of_gravity_result
        ELSE \E i \in 1..Len(position_list) :
                /\ \A j \in 1..Len(area_list) :
                      /\ area_list[i] <= area_list[j]
                      /\ j < i => area_list[i] < area_list[j]
                /\ converge.position = position_list[i]
                /\ converge.mass = mass_list[i]
                /\ converge.cg = cg_list[i]
                /\ mass_list[i] =
                      ExpectedMass(evaluator, mass_map, position_list[i],
                                   original_mass, original_cg)
                /\ cg_list[i] =
                      CgResult(evaluator, position_list[i],
                               original_mass, original_cg)

C10_Witness ==
    /\ converge.computed
    /\ outer_loop >= 2
    /\ evaluator.mslope = 10
    /\ converge.position \notin {Grid[1], Grid[Len(Grid)]}
    /\ converge.mass # mass_list[Len(mass_list)]

\* the evaluator calls of the scan of outer iteration k, in order
Samples(k) ==
    SelectSeq(call_log,
              LAMBDA e : e.aircraft.label = "initial" /\ e.iteration = k)

\* the winning sample of the scan of outer iteration k, from the call log:
\* the first one of least combined tail area
WinnerOf(k) ==
    LET sq == Samples(k)
        a(i) == sq[i].aircraft.horizontal_tail_area
                    + sq[i].aircraft.vertical_tail_area
        w == CHOOSE i \in 1..Len(sq) :
                \A j \in 1..Len(sq) :
                    a(i) <= a(j) /\ (j < i => a(i) < a(j))
    IN  sq[w].aircraft

\* the evaluation whose results outer iteration k starts from
PrevResult(k) == IF k = 1 THEN initial_aircraft ELSE WinnerOf(k - 1)

\* C11: every evaluator call of the scan of outer iteration k is given, as
\* assumed mass and c.g., the mass and c.g. computed by the winning sample
\* of iteration k - 1 (by the initial aircraft for k = 1), the same for all
\* samples of the scan; these are the values original_mass and original_cg
\* hold during the scan.
C11_AssumedFromPrevious ==
    /\ \A k \in 1..outer_loop :
          LET prev == PrevResult(k)
              sq == Samples(k)
          IN  /\ \A i \in 1..Len(sq) :
                    /\ sq[i].aircraft.maximum_take_off_weight
                          = prev.expected_maximum_take_off_weight
                    /\ sq[i].aircraft.centre_of_gravity
                          = prev.centre_of_gravity_result
              /\ (k = outer_loop /\ pc = "while_inner") =>
                    /\ original_mass = prev.expected_maximum_take_off_weight
                    /\ original_cg = prev.centre_of_gravity_result
    /\ pc = "while_inner" => Len(Samples(outer_loop)) = Len(position_list)

C11_Witness ==
    /\ pc = "done"
    /\ outer_loop = OuterCap
    /\ evaluator.mslope = 10
    /\ Len(Samples(3)) = 12
    /\ Samples(3)[12].aircraft.maximum_take_off_weight
          = WinnerOf(2).expected_maximum_take_off_weight
    /\ Samples(3)[12].aircraft.maximum_take_off_weight
          # Samples(2)[12].aircraft.maximum_take_off_weight
    /\ Samples(2)[1].aircraft.centre_of_gravity
          # initial_aircraft.centre_of_gravity_result

\* C12, as claimed: every scan evaluates the positions position_start,
\* position_start + position_step, ... up to and including position_end,
\* in ascending order and restarting from position_start in each outer
\* iteration: 13 samples, the last at 0.5.
C12_FullGrid ==
    ScanSelected =>
        /\ position_list[1] = position_start
        /\ \A i \in 1..(Len(position_list) - 1) :
              /\ position_list[i + 1] = FAdd(position_list[i], position_step)
              /\ ~FLeq(position_list[i + 1], position_list[i])
        /\ Len(position_list) = 13
        /\ position_list[Len(position_list)] = position_end

\* what the code does: 12 samples, the last below position_end, and the
\* position the scan stops at is above position_end
C12_Scanned ==
    ScanSelected =>
        /\ position_list = Grid
        /\ Len(position_list) = 12
        /\ position_list[12] = FAdd(Grid[11], position_step)
        /\ position_list[12] # position_end
        /\ FLeq(position_list[12], position_end)
        /\ position = FAdd(position_list[12], position_step)
        /\ ~FLeq(position, position_end)
        /\ \A k \in 1..outer_loop :
              \A i \in 1..Len(Samples(k)) :
                  Samples(k)[i].aircraft.longitudinal_wing_position = Grid[i]

\* a wing position within the scan range
InRange(pos) == FLeq(position_start, pos) /\ FLeq(pos, position_end)

\* C13: the wing position of the sizing state (resulting_position once
\* converge has read the initial aircraft, the position returned, and the
\* positions of the initial and the final aircraft) lies within
\* [position_start, position_end].
C13_PositionInRange ==
    /\ initial_aircraft.built =>
          InRange(initial_aircraft.longitudinal_wing_position)
    /\ outer_loop >= 0 =>
          /\ resulting_position # NoPosition
          /\ InRange(resulting_position)
    /\ converge.computed => InRange(converge.position)
    /\ new_aircraft.built => InRange(new_aircraft.longitudinal_wing_position)

C13_Witness ==
    /\ pc = "done"
    /\ outer_loop >= 1
    /\ converge.position = Grid[12]
    /\ new_aircraft.longitudinal_wing_position = Grid[12]
    /\ initial_aircraft.longitudinal_wing_position = default_wing_position

\* s is an initial part of t
IsPrefix(s, t) ==
    /\ Len(s) <= Len(t)
    /\ \A i \in 1..Len(s) : s[i] = t[i]

C15_BestEffort ==
    /\ (pc = "while_outer" /\ outer_loop = OuterCap
            /\ MassGap > allowable_mass_difference) =>
          /\ ENABLED (Return /\ pc' = "main" /\ converge'.computed)
          /\ ~ENABLED (Next /\ (pc' = "error" \/ ~converge'.computed))
    /\ (converge.computed /\ outer_loop = OuterCap
            /\ MassGap > allowable_mass_difference) =>
          /\ DOMAIN converge = DOMAIN [NoConverge EXCEPT !.computed = TRUE]
          /\ converge.position = WinnerOf(3).longitudinal_wing_position
          /\ converge.mass = WinnerOf(3).expected_maximum_take_off_weight
          /\ converge.cg = WinnerOf(3).centre_of_gravity_result
          /\ Len(Samples(3)) = Len(Grid)
          /\ \A i \in 1..Len(call_log) :
                call_log[i].raised => call_log[i].aircraft.label = "Iterated_PAV"

C15_Witness ==
    /\ pc = "done"
    /\ converge.computed
    /\ outer_loop = OuterCap
    /\ allowable_mass_difference = 500
    /\ MassGap > allowable_mass_difference
    /\ converge.mass = WinnerOf(3).expected_maximum_take_off_weight
    /\ new_aircraft.built

\* C16: when the evaluation of a sample of a scan raises, the only step is
\* the one that leaves converge with the exception: the sample is not
\* recorded, no further call is issued, converge has no value, nothing is
\* read from a final aircraft and the run has ended.
C16_FailurePropagates ==
    /\ (pc = "while_inner" /\ InnerCondition
            /\ Raises(evaluator, position, original_mass)) =>
          /\ ENABLED InnerLoopRaises
          /\ ~ENABLED (Next /\ pc' # "error")
    /\ (pc = "error" /\ ~converge.computed) =>
          /\ call_log[Len(call_log)].raised
          /\ call_log[Len(call_log)].aircraft.label = "initial"
          /\ call_log[Len(call_log)].aircraft.longitudinal_wing_position
                = position
          /\ Len(position_list) = Len(Samples(outer_loop)) - 1
          /\ \A i \in 1..Len(position_list) : position_list[i] # position
          /\ ~new_aircraft.built
          /\ outputs = <<>>
          /\ ~ENABLED Next
    /\ \A i \in 1..(Len(call_log) - 1) : ~call_log[i].raised

C16_Witness ==
    /\ pc = "error"
    /\ ~converge.computed
    /\ outer_loop = 2
    /\ Len(position_list) = 6
    /\ call_log[Len(call_log)].raised
    /\ calls = 1 + 12 + 7

\* the evaluator calls of all scans, in the order they were issued
ScanCalls == SelectSeq(call_log, LAMBDA e : e.aircraft.label = "initial")

\* C17: the scan calls are issued one at a time in strictly increasing
\* order of (outer iteration, position), so no pair is evaluated twice and
\* none is retried; iteration k + 1 starts only after the 12 samples of
\* iteration k; a completed scan has evaluated each grid position once;
\* and every step issues at most one call.
C17_OncePerSample ==
    /\ Len(ScanCalls) >= 1 =>
          /\ ScanCalls[1].iteration = 1
          /\ ScanCalls[1].aircraft.longitudinal_wing_position = position_start
    /\ \A i \in 1..(Len(ScanCalls) - 1) :
          LET a == ScanCalls[i]
              b == ScanCalls[i + 1]
              pa == a.aircraft.longitudinal_wing_position
              pb == b.aircraft.longitudinal_wing_position
          IN  \/ /\ b.iteration = a.iteration
                 /\ pb = FAdd(pa, position_step)
                 /\ ~FLeq(pb, pa)
              \/ /\ b.iteration = a.iteration + 1
                 /\ pb = position_start
                 /\ pa = Grid[Len(Grid)]
    /\ \A k \in 1..outer_loop :
          LET sq == Samples(k)
          IN  /\ Len(sq) <= Len(Grid)
              /\ \A i \in 1..Len(sq) :
                    sq[i].aircraft.longitudinal_wing_position = Grid[i]
              /\ (k < outer_loop \/ ScanSelected) => Len(sq) = Len(Grid)
    /\ calls = Len(call_log)
    /\ Len(ScanCalls) <= OuterCap * Len(Grid)

C17_Witness ==
    /\ pc = "done"
    /\ outer_loop = OuterCap
    /\ Len(ScanCalls) = 36
    /\ Len(Samples(1)) = 12 /\ Len(Samples(2)) = 12 /\ Len(Samples(3)) = 12
    /\ Samples(2)[1].aircraft.longitudinal_wing_position = position_start
    /\ Samples(2)[1].aircraft # Samples(1)[1].aircraft

\* the labels of the evaluator calls issued so far
LabelsCalled == {call_log[i].aircraft.label : i \in 1..Len(call_log)}

\* C18: no step of the driver changes the mission inputs, and every
\* evaluator call (initial aircraft, scan samples, final aircraft) is given
\* the mission inputs of the Iterator.
C18_MissionUnchanged ==
    /\ [][mission' = mission]_vars
    /\ [](\A i \in 1..Len(call_log) : call_log[i].mission = mission)

C18_Witness ==
    /\ pc = "done"
    /\ mission.n_passengers = 6
    /\ mission # PAVDefaults
    /\ LabelsCalled = {"Quick_PAV", "initial", "Iterated_PAV"}
    /\ \A i \in 1..Len(call_log) : call_log[i].mission = mission

\* the number of wing propellers the thrust asks for, and the number that
\* fits between the cabin and the wing tip
Required ==
    2 * Ceil(pav_in.cruise_drag - pav_in.thrust_per_propeller[1],
             2 * pav_in.thrust_per_propeller[2])

Allowed ==
    LET r == IF pav_in.planform[1] < 700 THEN Rat(pav_in.planform[1], 10)
             ELSE Rat(70, 1)
    IN  Rat(10 * ((pav_in.planform[1] - pav_in.planform[2]) * r.den - r.num),
            24 * r.num)

\* C19: number_of_propellers never raises: when more propellers are
\* required than fit on the span it returns the number that fits (and the
\* required number otherwise), with a warning only when warnings are not
\* hidden, and propeller_locations is then evaluated with no more wing
\* propellers than the number returned.
C19_ClampedNotRaised ==
    /\ pav_pc = "ready"
    /\ pav_out.number_of_propellers = NoValue => ENABLED ReadNumberOfPropellers
    /\ pav_out.number_of_propellers # NoValue =>
          LET n == pav_out.number_of_propellers
              short == RLess(Allowed, Rat(Required, 1))
          IN  /\ n.den > 0
              /\ IF short THEN REq(n, Allowed) ELSE n = Rat(Required, 1)
              /\ ~RLess(Allowed, n)
              /\ ~RLess(Rat(Required, 1), n)
              /\ (\E i \in 1..Len(pav_warnings) :
                     pav_warnings[i] = "Warning: value needs to be changed")
                    <=> (short /\ ~pav_in.hide_warnings)
              /\ pav_out.propeller_locations = -1 =>
                    ENABLED ReadPropellerLocations
              /\ pav_out.propeller_locations # -1 =>
                    /\ pav_out.propeller_locations >= 1
                    /\ pav_out.propeller_locations > 1 =>
                          ~RLess(n, Rat(pav_out.propeller_locations - 1, 1))

C19_Witness ==
    /\ pav_out.number_of_propellers # NoValue
    /\ RLess(Allowed, Rat(Required, 1))
    /\ REq(pav_out.number_of_propellers, Allowed)
    /\ pav_in.hide_warnings
    /\ pav_warnings = << >>
    /\ pav_out.propeller_locations = 3

C22_OutputsOfUnsuppressed ==
    \A i \in 1..Len(outputs) :
        /\ outputs[i].aircraft = outputs[1].aircraft
        /\ outputs[i].name = OutputOrder[i]
        /\ IF ~Not(iterate)
           THEN outputs[i].aircraft.label = "Iterated_PAV"
           ELSE outputs[i].aircraft.label = "Quick_PAV"

\* what the code does: the four outputs come from one aircraft, which is
\* new_aircraft exactly when "iterate is True"
C22_OutputsOfIsTrue ==
    \A i \in 1..Len(outputs) :
        /\ outputs[i].aircraft = outputs[1].aircraft
        /\ outputs[i].name = OutputOrder[i]
        /\ IF IsTrue(iterate)
           THEN outputs[i].aircraft = new_aircraft
                /\ outputs[i].aircraft.label = "Iterated_PAV"
           ELSE outputs[i].aircraft = initial_aircraft
                /\ outputs[i].aircraft.label = "Quick_PAV"

\* C23: number_of_propellers (the nose propeller excluded) is an even whole
\* number, whether all required propellers fit on the wing or the count is
\* limited by the span, and the wing propellers placed are as many on the
\* left wing as on the right wing.
C23_EvenCount ==
    pav_out.number_of_propellers # NoValue =>
        LET n == pav_out.number_of_propellers
        IN  /\ n.den > 0
            /\ n.num % (2 * n.den) = 0
            /\ pav_out.propeller_locations # -1 =>
                  (pav_out.propeller_locations - 1) % 2 = 0

\* what the code does: the count is even when the required propellers fit,
\* and the quotient (span - cabin - radius) / (2 radius factor) as it is
\* when they do not; the locations are symmetric in both cases
C23_EvenWhenFitting ==
    pav_out.number_of_propellers # NoValue =>
        LET n == pav_out.number_of_propellers
            short == RLess(Allowed, Rat(Required, 1))
        IN  /\ ~short => n.den = 1 /\ n.num % 2 = 0
            /\ short => REq(n, Allowed)
            /\ pav_out.propeller_locations # -1 =>
                  /\ (pav_out.propeller_locations - 1) % 2 = 0
                  /\ (pav_out.propeller_locations - 1) \div 2 =
                        (LET t == Trunc(n.num, 2 * n.den)
                         IN  IF t > 0 THEN t ELSE 0)

\* C21: a PAV built with hide_warnings = True, as every PAV of the inner
\* scan is, generates no warning dialog, whatever its inputs and whichever
\* of its attributes are read.
C21_HiddenWarnings == pav_in.hide_warnings => pav_warnings = << >>

\* what the code does: with hide_warnings = True the warnings of the PAV
\* attributes are withheld, those of LiftingSurface.profile_shape are shown
C21_ShapeWarningsShown ==
    /\ pav_in.hide_warnings =>
          \A i \in 1..Len(pav_warnings) :
              pav_warnings[i] = "Warning: shape adjusted"
    /\ "center_of_gravity_of_components" \in pav_out.evaluated =>
          Len(SelectSeq(pav_warnings,
                        LAMBDA w : w = "Warning: shape adjusted")) = 2

C26_SeatsAbreast ==
    "number_of_seats_abreast" \in pav_out.evaluated =>
        LET n == pav_in.number_of_passengers
        IN  pav_out.number_of_seats_abreast =
                (IF n = 1 THEN 1 ELSE IF n <= 8 THEN 2 ELSE 3)

\* what the code does: 1 seat abreast below 4 passengers, 2 from 4 on
C26_OneOrTwoAbreast ==
    "number_of_seats_abreast" \in pav_out.evaluated =>
        pav_out.number_of_seats_abreast =
            (IF pav_in.number_of_passengers <= 3 THEN 1 ELSE 2)

\* the coordinates a single component is assigned before the lateral reset
Assigned(component) ==
    IF component = "battery" THEN <<pav_in.fuselage_length \div 4, 0, 0>>
    ELSE IF component = "payload"
    THEN <<pav_in.fuselage_length \div 2, -(cabin_height(pav_in) \div 5), 0>>
    ELSE pav_in.geometry[component]

OneSided == {"main_wing", "horizontal_tail", "vertical_tail",
             "front_connection"}

\* C27: in center_of_gravity_of_components the lateral coordinate is reset
\* to 0 for main_wing, horizontal_tail, vertical_tail and front_connection
\* only; fuselage, battery and payload keep the coordinates assigned to them.
C27_ResetOneSidedOnly ==
    "center_of_gravity_of_components" \in pav_out.evaluated =>
        \A component \in SingleComponents :
            LET value == pav_out.center_of_gravity_of_components[component]
            IN  IF component \in OneSided
                THEN value = [Assigned(component) EXCEPT ![2] = 0]
                ELSE value = Assigned(component)

\* what the code does: the lateral coordinate of every single component is
\* reset to 0
C27_ResetAll ==
    "center_of_gravity_of_components" \in pav_out.evaluated =>
        \A component \in SingleComponents :
            pav_out.center_of_gravity_of_components[component] =
                [Assigned(component) EXCEPT ![2] = 0]

\* the number of locations at the lateral position y
OnSkid(locations, y) == Cardinality({i \in DOMAIN locations : locations[i] = y})

\* the number of rotors that fit between the front connection and the
\* vertical tail (rounded down, negative when even the margin does not fit)
FitInBetween ==
    ((pav_in.distance_in_between - 200) * 10)
        \div (24 * vtol_propeller_radius(pav_in))

\* C28: vtol_propeller_locations returns exactly number_of_vtol_propellers
\* locations, half of them at the negative and half at the positive lateral
\* skid position, for every rotor count and every distance between the
\* front connection and the vertical tail.
C28_ExactCount ==
    "vtol_propeller_locations" \in pav_out.evaluated =>
        LET n == pav_out.number_of_vtol_propellers
            locations == pav_out.vtol_propeller_locations
        IN  /\ Len(locations) = n
            /\ OnSkid(locations, -1) = n \div 2
            /\ OnSkid(locations, 1) = n \div 2

\* what the code does: the skids carry equal numbers of locations, at least
\* number_of_vtol_propellers in all, and exactly that many unless fewer than
\* one rotor fits in between while an odd number per skid is asked for, or
\* the distance is shorter than the margin
C28_AtLeastCount ==
    "vtol_propeller_locations" \in pav_out.evaluated =>
        LET n == pav_out.number_of_vtol_propellers
            locations == pav_out.vtol_propeller_locations
            outside == Max(<<n \div 2 - FitInBetween, 0>>)
        IN  /\ OnSkid(locations, -1) = OnSkid(locations, 1)
            /\ OnSkid(locations, -1) + OnSkid(locations, 1) = Len(locations)
            /\ Len(locations) >= n
            /\ Len(locations) = n <=>
                  (outside + (outside % 2) <= n \div 2)

\* the amount in cents a formatted price stands for
Amount(cost) == cost.dollars * 100 + cost.cents

RECURSIVE SumOfCosts(_)
SumOfCosts(list) ==
    IF list = << >> THEN 0 ELSE Amount(Head(list)) + SumOfCosts(Tail(list))

\* C29: on the invoice the total cost is the sum of the cost items listed,
\* with wheels = 'Yes' (the surcharge of 3000 listed and counted) and with
\* wheels = 'No' (neither listed nor counted).
C29_TotalIsSum ==
    pav_pc = "written" =>
        /\ Len(pav_out.cost_names) = Len(pav_out.cost_values)
        /\ Amount(pav_out.total_cost) = SumOfCosts(pav_out.cost_values)

\* what the code does: the surcharge is listed only with wheels = 'Yes' and
\* counted in the total in both cases
C29_SurchargeAlwaysCounted ==
    pav_pc = "written" =>
        /\ Len(pav_out.cost_names) = Len(pav_out.cost_values)
        /\ Len(pav_out.cost_values) = (IF pav_in.wheels = "Yes" THEN 5 ELSE 4)
        /\ Amount(pav_out.total_cost) =
              SumOfCosts(pav_out.cost_values)
                + (IF pav_in.wheels = "Yes" THEN 0 ELSE 300000)

\* the aspect ratio the maximum span would give, in binary64
AspectRatioAtMaximum ==
    DDivSmall(DMul(Double(pav_in.maximum_span, -2),
                   Double(pav_in.maximum_span, -2)),
              pav_in.wing_area, -2)

\* n * (1 - 2^-50) and n * (1 + 2^-50) as exact values
Below(n) == [m |-> BSub(BShl(BNat(n), 50), BNat(n)), e |-> -50]

Above(n) == [m |-> BAdd(BShl(BNat(n), 50), BNat(n)), e |-> -50]

====
